---- MODULE Spec2Model ----
(***************************************************************************)
(* A model of the UDP gossip node: GossipNode (src/gossip_node.py) and the  *)
(* NodeRuntime / PeerStore pair (src/src/node.py).  Handlers are pure       *)
(* operators from (config, node state, datagram, clock, shuffle outcome) to *)
(* (node state, datagrams sent); the actions apply them.                    *)
(***************************************************************************)
EXTENDS Integers, Sequences, FiniteSets, TLC

VARIABLES
    now,    \* the wall clock (time.time()), in ticks
    cfg,    \* the configuration the processes were started with
    gn,     \* gn[n]: the state of GossipNode n
    rt,     \* the state of the NodeRuntime process
    net,    \* datagrams in flight to the running nodes
    ev,     \* the last step: its kind, and whose datagram it handled
    hist,   \* hist[n][m]: how often n first-saw m, pushed m, re-sent m
    threads \* threads[t]: where thread t is in JsonlLogger.log or .close

vars == <<now, cfg, gn, rt, net, ev, hist, threads>>

----------------------------------------------------------------------------
(* Bounds of the model *)

NumNodes == 4
MaxTime == 2
MaxPeerLimit == 2
MaxTtl == 2
MaxCache == 1

(* Program constants *)

BASE_PORT == 8000
MAX_MISSED_PONGS == 3
CACHE_LIMIT == 1024

Nodes == 1 .. NumNodes
NodeIdOf(n) == <<"n1", "n2", "n3", "n4", "n5", "n6">>[n]
AddrOf(n) == BASE_PORT + n

NoneId == ""
NoAddr == 0

Max(a, b) == IF a >= b THEN a ELSE b
Min(a, b) == IF a <= b THEN a ELSE b

(* the cache limit, scaled to the number of msg_ids of the model *)
CacheLimit == Min(CACHE_LIMIT, MaxCache)

RemoveAt(seq, i) == SubSeq(seq, 1, i - 1) \o SubSeq(seq, i + 1, Len(seq))

Range(seq) == {seq[i] : i \in DOMAIN seq}

Perms(k) == {p \in [1 .. k -> 1 .. k] : \A i, j \in 1 .. k : p[i] = p[j] => i = j}

----------------------------------------------------------------------------
(* random.Random.shuffle: the list reordered by a permutation of positions. *)
(* perm is a permutation of 1..K with K >= Len(items); the outcome is the   *)
(* items taken in the order in which their positions appear in perm.        *)

shuffle(items, perm) ==
    LET pos == SelectSeq(perm, LAMBDA i : i <= Len(items))
    IN  [k \in 1 .. Len(items) |-> items[pos[k]]]

----------------------------------------------------------------------------
(* Proof of work.  Text is a sequence of character codes; sha256 is stood   *)
(* in for by an order-sensitive fold to a two-digit hex digest.             *)

IdText(id) ==
    CASE id = "n1" -> <<11, 1>>
      [] id = "n2" -> <<11, 2>>
      [] id = "n3" -> <<11, 3>>
      [] id = "n4" -> <<11, 4>>
      [] id = "n5" -> <<11, 5>>
      [] id = "n6" -> <<11, 6>>
      [] id = "x"  -> <<12>>
      [] OTHER     -> <<13>>

RECURSIVE DecText(_)
DecText(n) == IF n < 10 THEN <<n>> ELSE DecText(n \div 10) \o <<n % 10>>

RECURSIVE ShaFold(_, _)
ShaFold(text, h) ==
    IF text = <<>> THEN h
    ELSE ShaFold(Tail(text), (h * 37 + Head(text) * 11 + 5) % 256)

sha256_hexdigest(text) ==
    LET h == ShaFold(text, 99) IN <<h \div 16, h % 16>>

Zeros(k) == [i \in 1 .. k |-> 0]

startswith(digest, prefix) ==
    /\ Len(digest) >= Len(prefix)
    /\ SubSeq(digest, 1, Len(prefix)) = prefix

NoPow == [hash_alg |-> "", difficulty_k |-> -1, nonce |-> -1, digest_hex |-> <<>>]

RECURSIVE PowSearch(_, _, _)
PowSearch(node_id, k, nonce) ==
    LET h == sha256_hexdigest(IdText(node_id) \o DecText(nonce))
    IN  IF startswith(h, Zeros(k))
        THEN [hash_alg |-> "sha256", difficulty_k |-> k, nonce |-> nonce, digest_hex |-> h]
        ELSE PowSearch(node_id, k, nonce + 1)

compute_pow(node_id, k) ==
    IF k = 0
    THEN [hash_alg |-> "sha256", difficulty_k |-> 0, nonce |-> 0, digest_hex |-> <<>>]
    ELSE PowSearch(node_id, k, 0)

verify_pow(node_id, pow_payload, k) ==
    IF pow_payload.hash_alg # "sha256" THEN FALSE
    ELSE IF pow_payload.difficulty_k # k THEN FALSE
    ELSE IF pow_payload.nonce < 0 THEN FALSE
    ELSE LET computed_digest ==
                 sha256_hexdigest(IdText(node_id) \o DecText(pow_payload.nonce))
         IN  /\ computed_digest = pow_payload.digest_hex
             /\ startswith(computed_digest, Zeros(k))

----------------------------------------------------------------------------
(* Messages (GossipNode._base_msg and the _make_* builders).                *)

Msg(type, id, sender_id, sender_addr, ttl) ==
    [msg_type |-> type, msg_id |-> id, sender_id |-> sender_id,
     sender_addr |-> sender_addr, ttl |-> ttl, ids |-> <<>>, peers |-> <<>>,
     capabilities |-> {"udp", "json"}, has_pow |-> FALSE, pow |-> NoPow, max_peers |-> 0]

base_msg(c, s, type) == Msg(type, "u", s.node_id, s.self_addr, c.ttl)

make_hello(c, s) ==
    IF c.pow_k > 0
    THEN [base_msg(c, s, "HELLO") EXCEPT !.has_pow = TRUE,
                                         !.pow = compute_pow(s.node_id, c.pow_k)]
    ELSE base_msg(c, s, "HELLO")

make_get_peers(c, s, max_peers) ==
    [base_msg(c, s, "GET_PEERS") EXCEPT !.max_peers = max_peers]

PeerEntry(p) == [node_id |-> p.node_id, addr |-> p.addr]

make_peers_list(c, s) ==
    [base_msg(c, s, "PEERS_LIST") EXCEPT
        !.peers = [i \in DOMAIN s.peers |-> PeerEntry(s.peers[i])]]

make_ping(c, s) == base_msg(c, s, "PING")

make_pong(c, s) == base_msg(c, s, "PONG")

make_gossip(c, s, id) == [base_msg(c, s, "GOSSIP") EXCEPT !.msg_id = id]

make_ihave(c, s, ids) ==
    [base_msg(c, s, "IHAVE") EXCEPT
        !.ids = SubSeq(ids, 1, Min(Len(ids), c.ihave_max_ids))]

make_iwant(c, s, ids) == [base_msg(c, s, "IWANT") EXCEPT !.ids = ids]

Send(m, addr) == [dst |-> addr, msg |-> m]

Res(s, o) == [s |-> s, out |-> o, log |-> <<>>]

ResLog(s, o, l) == [s |-> s, out |-> o, log |-> l]

LogLine(event, id, from) == [event |-> event, msg_id |-> id, from |-> from]

(* A datagram as it arrives: whether its bytes decode, whether the JSON     *)
(* value is an object, which fields the object lacks, and what the checked  *)
(* fields hold; msg is the message the remaining fields spell.  A payload   *)
(* that is no object and a ttl that is no integer are JSON strings.         *)
Datagram(msg) ==
    [decode |-> "ok", is_object |-> TRUE, missing |-> {}, version |-> 1,
     addr_parses |-> TRUE, timestamp_is_int |-> TRUE, payload_is_dict |-> TRUE,
     ttl_is_int |-> TRUE, msg |-> msg]

required_fields ==
    <<"version", "msg_id", "msg_type", "sender_id", "sender_addr", "timestamp_ms", "payload">>

(* src/messages.py validate_message: "ok" or the reason of the rejection *)
validate_message(d) ==
    LET absent == {i \in DOMAIN required_fields : required_fields[i] \in d.missing}
    IN  IF ~d.is_object THEN "message_not_object"
        ELSE IF absent # {}
        THEN "missing_" \o required_fields[CHOOSE i \in absent : \A j \in absent : i <= j]
        ELSE IF d.version # 1 THEN "invalid_version"
        ELSE IF d.msg.msg_id = "" THEN "invalid_msg_id"
        ELSE IF d.msg.msg_type = "" THEN "invalid_msg_type"
        ELSE IF d.msg.sender_id = "" THEN "invalid_sender_id"
        ELSE IF d.msg.sender_addr = NoAddr THEN "invalid_sender_addr"
        ELSE IF ~d.addr_parses THEN "invalid_sender_addr_format"
        ELSE IF ~d.timestamp_is_int THEN "invalid_timestamp_ms"
        ELSE IF ~d.payload_is_dict THEN "invalid_payload_type"
        ELSE IF d.msg.msg_type = "GOSSIP"
        THEN IF "ttl" \in d.missing THEN "missing_ttl"
             ELSE IF ~d.ttl_is_int \/ d.msg.ttl < 0 THEN "invalid_ttl"
             ELSE "ok"
        ELSE IF "ttl" \notin d.missing /\ ~d.ttl_is_int THEN "invalid_ttl_type"
        ELSE "ok"

----------------------------------------------------------------------------
(* GossipNode: state and peer management.                                   *)
(* peers and gossip_cache are Python dicts: sequences in insertion order    *)
(* with unique keys.                                                        *)

PeerInfo(node_id, addr, last_seen) ==
    [node_id |-> node_id, addr |-> addr, last_seen |-> last_seen,
     last_ping |-> 0, missed_pongs |-> 0]

GossipNodeInit(n) ==
    [node_id |-> NodeIdOf(n), self_addr |-> AddrOf(n), peers |-> <<>>,
     seen_msgs |-> {}, gossip_cache |-> <<>>, started |-> FALSE, originated |-> 0]

PeerIds(peers) == {peers[i].node_id : i \in DOMAIN peers}

PeerIndex(peers, id) == CHOOSE i \in DOMAIN peers : peers[i].node_id = id

CacheIds(cache) == {cache[i].msg_id : i \in DOMAIN cache}

CacheGet(cache, id) == cache[CHOOSE i \in DOMAIN cache : cache[i].msg_id = id]

(* min(self.peers.items(), key=last_seen): the first entry of least last_seen *)
OldestIndex(peers) ==
    CHOOSE i \in DOMAIN peers :
        /\ \A j \in DOMAIN peers : peers[i].last_seen <= peers[j].last_seen
        /\ \A j \in 1 .. i - 1 : peers[j].last_seen > peers[i].last_seen

(* faulty variant: a new peer is appended without evicting at the limit *)
update_peer_unbounded(c, peers, node_id, addr, t) ==
    IF node_id \in PeerIds(peers)
    THEN LET i == PeerIndex(peers, node_id)
         IN  [peers EXCEPT ![i].addr = addr, ![i].last_seen = t]
    ELSE Append(peers, PeerInfo(node_id, addr, t))

update_peer(c, peers, node_id, addr, t) ==
    IF node_id \in PeerIds(peers)
    THEN LET i == PeerIndex(peers, node_id)
         IN  [peers EXCEPT ![i].addr = addr, ![i].last_seen = t]
    ELSE LET kept == IF Len(peers) >= c.peer_limit
                     THEN RemoveAt(peers, OldestIndex(peers))
                     ELSE peers
         IN  Append(kept, PeerInfo(node_id, addr, t))

(* faulty variant: the datagram goes to every eligible peer *)
broadcast_flood(c, s, msg, exclude, perm) ==
    LET peer_items == IF exclude = NoneId THEN s.peers
                      ELSE SelectSeq(s.peers, LAMBDA p : p.node_id # exclude)
        shuffled == shuffle(peer_items, perm)
    IN  [i \in DOMAIN peer_items |-> Send(msg, shuffled[i].addr)]

(* faulty variant: the excluded peer is not filtered out *)
broadcast_to_all(c, s, msg, exclude, perm) ==
    LET shuffled == shuffle(s.peers, perm)
        fanout == Min(c.fanout, Len(s.peers))
    IN  [i \in 1 .. fanout |-> Send(msg, shuffled[i].addr)]

(* _broadcast: shuffle the eligible peers, send to the first min(fanout, n) *)
broadcast(c, s, msg, exclude, perm) ==
    LET peer_items == IF exclude = NoneId THEN s.peers
                      ELSE SelectSeq(s.peers, LAMBDA p : p.node_id # exclude)
        shuffled == shuffle(peer_items, perm)
        fanout == Min(c.fanout, Len(peer_items))
    IN  [i \in 1 .. fanout |-> Send(msg, shuffled[i].addr)]

----------------------------------------------------------------------------
(* GossipNode: the datagram handlers.                                       *)

(* faulty variant: the credential is looked for but never verified *)
on_hello_unverified(c, s, msg, addr, t) ==
    IF c.pow_k > 0 /\ ~msg.has_pow THEN Res(s, <<>>)
    ELSE LET s1 == [s EXCEPT !.peers = update_peer(c, s.peers, msg.sender_id, addr, t)]
         IN  Res(s1, <<Send(make_peers_list(c, s1), addr)>>)

on_hello(c, s, msg, addr, t) ==
    IF c.pow_k > 0 /\ ~msg.has_pow THEN Res(s, <<>>)
    ELSE IF c.pow_k > 0 /\ ~verify_pow(msg.sender_id, msg.pow, c.pow_k) THEN Res(s, <<>>)
    ELSE LET s1 == [s EXCEPT !.peers = update_peer(c, s.peers, msg.sender_id, addr, t)]
         IN  Res(s1, <<Send(make_peers_list(c, s1), addr)>>)

RECURSIVE GetPeersPayload(_, _, _)
GetPeersPayload(peers, acc, max_peers) ==
    IF peers = <<>> THEN acc
    ELSE LET acc1 == Append(acc, PeerEntry(Head(peers)))
         IN  IF Len(acc1) >= max_peers THEN acc1
             ELSE GetPeersPayload(Tail(peers), acc1, max_peers)

on_get_peers(c, s, msg, addr) ==
    LET self_entry == [node_id |-> s.node_id, addr |-> s.self_addr]
        peers_payload == GetPeersPayload(s.peers, <<self_entry>>, msg.max_peers)
        reply == [base_msg(c, s, "PEERS_LIST") EXCEPT !.peers = peers_payload]
    IN  Res(s, <<Send(reply, addr)>>)

RECURSIVE PeersListLoop(_, _, _, _, _)
PeersListLoop(c, s, entries, sent, t) ==
    IF entries = <<>> THEN Res(s, sent)
    ELSE LET p == Head(entries)
         IN  IF p.node_id = s.node_id
             THEN PeersListLoop(c, s, Tail(entries), sent, t)
             ELSE LET was_known == p.node_id \in PeerIds(s.peers)
                      s1 == [s EXCEPT !.peers = update_peer(c, s.peers, p.node_id, p.addr, t)]
                  IN  PeersListLoop(c, s1, Tail(entries),
                          IF was_known THEN sent
                          ELSE Append(sent, Send(make_hello(c, s1), p.addr)), t)

on_peers_list(c, s, msg, t) == PeersListLoop(c, s, msg.peers, <<>>, t)

on_ping(c, s, msg, addr) == Res(s, <<Send(make_pong(c, s), addr)>>)

(* faulty variant: the PONG is taken as a sign of life only *)
on_pong_no_reset(c, s, msg) == Res(s, <<>>)

on_pong(c, s, msg) ==
    IF msg.sender_id \in PeerIds(s.peers)
    THEN LET i == PeerIndex(s.peers, msg.sender_id)
         IN  Res([s EXCEPT !.peers[i].missed_pongs = 0], <<>>)
    ELSE Res(s, <<>>)

CachePut(cache, msg) ==
    LET put == IF msg.msg_id \in CacheIds(cache)
               THEN [i \in DOMAIN cache |->
                        IF cache[i].msg_id = msg.msg_id THEN msg ELSE cache[i]]
               ELSE Append(cache, msg)
    IN  IF Len(put) > CacheLimit THEN Tail(put) ELSE put

(* faulty variant: no look-up in seen_msgs *)
on_gossip_no_dedup(c, s, msg, ttl, sender_id, perm) ==
    IF msg.msg_id = "" THEN Res(s, <<>>)
    ELSE LET s1 == [s EXCEPT !.seen_msgs = @ \cup {msg.msg_id},
                             !.gossip_cache = CachePut(@, msg)]
             line == <<LogLine("GOSSIP_RECEIVED", msg.msg_id, msg.sender_addr)>>
         IN  IF ttl <= 0 THEN ResLog(s1, <<>>, line)
             ELSE ResLog(s1, broadcast(c, s1, [msg EXCEPT !.ttl = ttl - 1], sender_id, perm),
                         line)

(* faulty variant: the hop budget is tested with < in place of <= *)
on_gossip_ttl_lt(c, s, msg, ttl, sender_id, perm) ==
    IF msg.msg_id = "" THEN Res(s, <<>>)
    ELSE IF msg.msg_id \in s.seen_msgs THEN Res(s, <<>>)
    ELSE LET s1 == [s EXCEPT !.seen_msgs = @ \cup {msg.msg_id},
                             !.gossip_cache = CachePut(@, msg)]
             line == <<LogLine("GOSSIP_RECEIVED", msg.msg_id, msg.sender_addr)>>
         IN  IF ttl < 0 THEN ResLog(s1, <<>>, line)
             ELSE ResLog(s1, broadcast(c, s1, [msg EXCEPT !.ttl = ttl - 1], sender_id, perm),
                         line)

(* faulty variant: the copy is forwarded with the hop budget it came with *)
on_gossip_no_decrement(c, s, msg, ttl, sender_id, perm) ==
    IF msg.msg_id = "" THEN Res(s, <<>>)
    ELSE IF msg.msg_id \in s.seen_msgs THEN Res(s, <<>>)
    ELSE LET s1 == [s EXCEPT !.seen_msgs = @ \cup {msg.msg_id},
                             !.gossip_cache = CachePut(@, msg)]
             line == <<LogLine("GOSSIP_RECEIVED", msg.msg_id, msg.sender_addr)>>
         IN  IF ttl <= 0 THEN ResLog(s1, <<>>, line)
             ELSE ResLog(s1, broadcast(c, s1, msg, sender_id, perm), line)

on_gossip(c, s, msg, ttl, sender_id, perm) ==
    IF msg.msg_id = "" THEN Res(s, <<>>)
    ELSE IF msg.msg_id \in s.seen_msgs THEN Res(s, <<>>)
    ELSE LET s1 == [s EXCEPT !.seen_msgs = @ \cup {msg.msg_id},
                             !.gossip_cache = CachePut(@, msg)]
             line == <<LogLine("GOSSIP_RECEIVED", msg.msg_id, msg.sender_addr)>>
         IN  IF ttl <= 0 THEN ResLog(s1, <<>>, line)
             ELSE ResLog(s1, broadcast(c, s1, [msg EXCEPT !.ttl = ttl - 1], sender_id, perm),
                         line)

(* faulty variant: every advertised id is requested, known or not *)
on_ihave_all(c, s, msg, sender_id) ==
    IF msg.ids = <<>> THEN Res(s, <<>>)
    ELSE IF sender_id \in PeerIds(s.peers)
    THEN Res(s, <<Send(make_iwant(c, s, msg.ids),
                       s.peers[PeerIndex(s.peers, sender_id)].addr)>>)
    ELSE Res(s, <<>>)

(* faulty variant: an advertisement is never answered *)
on_ihave_silent(c, s, msg, sender_id) == Res(s, <<>>)

on_ihave(c, s, msg, sender_id) ==
    LET unknown_ids == SelectSeq(msg.ids, LAMBDA mid : mid \notin s.seen_msgs)
    IN  IF unknown_ids = <<>> THEN Res(s, <<>>)
        ELSE IF sender_id \in PeerIds(s.peers)
        THEN Res(s, <<Send(make_iwant(c, s, unknown_ids),
                           s.peers[PeerIndex(s.peers, sender_id)].addr)>>)
        ELSE Res(s, <<>>)

(* faulty variant: a served copy is re-stamped as a forward of this node *)
on_iwant_restamped(c, s, msg, sender_id) ==
    IF sender_id \notin PeerIds(s.peers) THEN Res(s, <<>>)
    ELSE LET addr == s.peers[PeerIndex(s.peers, sender_id)].addr
             hits == SelectSeq(msg.ids, LAMBDA mid : mid \in CacheIds(s.gossip_cache))
         IN  Res(s, [i \in DOMAIN hits |->
                        Send([CacheGet(s.gossip_cache, hits[i]) EXCEPT
                                 !.sender_id = s.node_id, !.ttl = @ - 1], addr)])

(* faulty variant: a request is never served *)
on_iwant_silent(c, s, msg, sender_id) == Res(s, <<>>)

on_iwant(c, s, msg, sender_id) ==
    IF sender_id \notin PeerIds(s.peers) THEN Res(s, <<>>)
    ELSE LET addr == s.peers[PeerIndex(s.peers, sender_id)].addr
             hits == SelectSeq(msg.ids, LAMBDA mid : mid \in CacheIds(s.gossip_cache))
         IN  Res(s, [i \in DOMAIN hits |-> Send(CacheGet(s.gossip_cache, hits[i]), addr)])

handle_datagram(c, s, msg, addr, t, perm) ==
    IF msg.msg_type = "" \/ msg.sender_id = "" THEN Res(s, <<>>)
    ELSE LET s1 == IF msg.sender_id # s.node_id /\ msg.msg_type # "HELLO"
                   THEN [s EXCEPT !.peers = update_peer(c, s.peers, msg.sender_id, addr, t)]
                   ELSE s
         IN  CASE msg.msg_type = "HELLO"      -> on_hello(c, s1, msg, addr, t)
               [] msg.msg_type = "GET_PEERS"  -> on_get_peers(c, s1, msg, addr)
               [] msg.msg_type = "PEERS_LIST" -> on_peers_list(c, s1, msg, t)
               [] msg.msg_type = "PING"       -> on_ping(c, s1, msg, addr)
               [] msg.msg_type = "PONG"       -> on_pong(c, s1, msg)
               [] msg.msg_type = "GOSSIP"     -> on_gossip(c, s1, msg, msg.ttl, msg.sender_id, perm)
               [] msg.msg_type = "IHAVE"      -> on_ihave(c, s1, msg, msg.sender_id)
               [] msg.msg_type = "IWANT"      -> on_iwant(c, s1, msg, msg.sender_id)
               [] OTHER                       -> Res(s1, <<>>)

(* the message as the msg.get calls of handle_datagram and of the handlers  *)
(* read it: a missing field reads as its default                            *)
Decoded(c, d) ==
    LET m == [d.msg EXCEPT
                 !.msg_type = IF "msg_type" \in d.missing THEN "" ELSE @,
                 !.sender_id = IF "sender_id" \in d.missing THEN "" ELSE @,
                 !.msg_id = IF "msg_id" \in d.missing THEN "" ELSE @,
                 !.ttl = IF "ttl" \in d.missing THEN 0 ELSE @]
    IN  IF "payload" \in d.missing
        THEN [m EXCEPT !.ids = <<>>, !.peers = <<>>, !.has_pow = FALSE, !.pow = NoPow,
                       !.max_peers = c.peer_limit]
        ELSE m

(* GossipNodeProtocol.datagram_received and handle_datagram from the bytes  *)
(* on.  An exception ends the task of the datagram where it is raised:      *)
(* msg.get on a value that is no object, payload.get on a payload that is   *)
(* no object (in _on_gossip after seen_msgs.add), ttl <= 0 on a ttl that is *)
(* no integer (after the cache entry is made).                              *)
datagram_received(c, s, d, addr, t, perm) ==
    IF d.decode # "ok" THEN Res(s, <<>>)
    ELSE IF ~d.is_object THEN Res(s, <<>>)
    ELSE LET msg == Decoded(c, d)
             s1 == IF msg.sender_id # s.node_id /\ msg.msg_type # "HELLO"
                   THEN [s EXCEPT !.peers = update_peer(c, s.peers, msg.sender_id, addr, t)]
                   ELSE s
             fresh == msg.msg_id # "" /\ msg.msg_id \notin s.seen_msgs
         IN  IF msg.msg_type = "" \/ msg.sender_id = "" THEN Res(s, <<>>)
             ELSE IF "payload" \notin d.missing /\ ~d.payload_is_dict /\ msg.msg_type # "PONG"
             THEN IF msg.msg_type = "GOSSIP" /\ fresh
                  THEN Res([s1 EXCEPT !.seen_msgs = @ \cup {msg.msg_id}], <<>>)
                  ELSE Res(s1, <<>>)
             ELSE IF msg.msg_type = "GOSSIP" /\ "ttl" \notin d.missing /\ ~d.ttl_is_int
             THEN IF fresh
                  THEN ResLog([s1 EXCEPT !.seen_msgs = @ \cup {msg.msg_id},
                                         !.gossip_cache = CachePut(@, msg)], <<>>,
                              <<LogLine("GOSSIP_RECEIVED", msg.msg_id, msg.sender_addr)>>)
                  ELSE Res(s1, <<>>)
             ELSE handle_datagram(c, s, msg, addr, t, perm)

----------------------------------------------------------------------------
(* GossipNode: the periodic tasks, the stdin loop and start().              *)

MissedPong(c, p, t) ==
    /\ p.last_ping > 0
    /\ (t - p.last_ping) > c.peer_timeout
    /\ (t - p.last_seen) > c.peer_timeout

ping_loop(c, s, t, perm) ==
    LET marked == [i \in DOMAIN s.peers |->
                      IF MissedPong(c, s.peers[i], t)
                      THEN [s.peers[i] EXCEPT !.missed_pongs = @ + 1, !.last_ping = t]
                      ELSE s.peers[i]]
        dead == {marked[i].node_id : i \in {j \in DOMAIN marked :
                    MissedPong(c, s.peers[j], t)
                    /\ marked[j].missed_pongs >= MAX_MISSED_PONGS}}
        alive == SelectSeq(marked, LAMBDA p : p.node_id \notin dead)
        peer_items == shuffle(alive, perm)
        count == Min(c.fanout, Len(peer_items))
        pinged == {peer_items[i].node_id : i \in 1 .. count}
        stamped == [i \in DOMAIN alive |->
                       IF alive[i].node_id \in pinged
                       THEN [alive[i] EXCEPT !.last_ping = t] ELSE alive[i]]
    IN  Res([s EXCEPT !.peers = stamped],
            [i \in 1 .. count |-> Send(make_ping(c, s), peer_items[i].addr)])

(* faulty variant: the digest is sent whatever the pull interval *)
pull_loop_unconditional(c, s, ids_order, perm, perm2) ==
    IF s.peers = <<>> \/ s.seen_msgs = {} THEN Res(s, <<>>)
    ELSE LET peer_items == shuffle(s.peers, perm)
             count == Min(c.fanout, Len(peer_items))
             ihave_msg == make_ihave(c, s, shuffle(ids_order, perm2))
         IN  Res(s, [i \in 1 .. count |-> Send(ihave_msg, peer_items[i].addr)])

(* ids_order is list(self.seen_msgs): the set in its iteration order *)
pull_loop(c, s, ids_order, perm, perm2) ==
    IF c.pull_interval <= 0 THEN Res(s, <<>>)
    ELSE IF s.peers = <<>> \/ s.seen_msgs = {} THEN Res(s, <<>>)
    ELSE LET peer_items == shuffle(s.peers, perm)
             count == Min(c.fanout, Len(peer_items))
             ihave_msg == make_ihave(c, s, shuffle(ids_order, perm2))
         IN  Res(s, [i \in 1 .. count |-> Send(ihave_msg, peer_items[i].addr)])

discovery_loop(c, s, perm) ==
    IF c.discovery_interval <= 0 THEN Res(s, <<>>)
    ELSE IF s.peers = <<>> THEN Res(s, <<>>)
    ELSE LET peer_items == shuffle(s.peers, perm)
             count == Min(c.fanout, Len(peer_items))
         IN  Res(s, [i \in 1 .. count |->
                        Send(make_get_peers(c, s, c.peer_limit), peer_items[i].addr)])

stdin_gossip(c, s, id, perm) ==
    LET msg == make_gossip(c, s, id)
        s1 == [s EXCEPT !.seen_msgs = @ \cup {id}, !.originated = @ + 1]
    IN  ResLog(s1, broadcast(c, s1, msg, NoneId, perm),
               <<LogLine("GOSSIP_ORIGINATED", id, s.self_addr)>>)

start(c, s, bootstrap) ==
    LET s1 == [s EXCEPT !.started = TRUE]
    IN  IF bootstrap # NoAddr
        THEN Res(s1, <<Send(make_hello(c, s1), bootstrap),
                       Send(make_get_peers(c, s1, c.peer_limit), bootstrap)>>)
        ELSE Res(s1, <<>>)

----------------------------------------------------------------------------
(* NodeRuntime and PeerStore (src/src/node.py).  The store is a dict keyed  *)
(* by address: a function on the set of known addresses.                    *)

EPOCH == 1000

now_ms(t) == (EPOCH + t) * 1000

NoneTs == -1

PeerRecord(addr, node_id, last_seen_ts_ms, verified, source) ==
    [addr |-> addr, node_id |-> node_id, last_seen_ts_ms |-> last_seen_ts_ms,
     consecutive_ping_failures |-> 0, is_verified_hello |-> verified, source |-> source]

(* JsonlLogger: the file, the lock (0: free, or the thread that holds it),  *)
(* the closed flag and the lines in the file                                *)
(* pending: what was written to the file and not flushed yet               *)
JsonlLoggerInit ==
    [closed |-> FALSE, fp |-> "open", lock |-> 0, pending |-> <<>>, lines |-> <<>>]

(* transport: "none" until run() has opened the endpoint, then "open";      *)
(* "lost" when the loop reported its loss, "closing" when close() has been  *)
(* called on it and connection_lost is still to be delivered, "closed" then *)
RuntimeInit ==
    [node_id |-> NodeIdOf(1), self_addr |-> AddrOf(1), peers |-> <<>>, connected |-> FALSE,
     transport |-> "none", stop_event |-> FALSE, returned |-> FALSE,
     logger |-> JsonlLoggerInit]

Staleness(record, now_ts_ms) ==
    Max(0, now_ts_ms - (IF record.last_seen_ts_ms = NoneTs THEN 0 ELSE record.last_seen_ts_ms))

(* Python's tuple order on (failures, staleness_ms, addr) *)
ScoreGreater(a, b, now_ts_ms) ==
    \/ a.consecutive_ping_failures > b.consecutive_ping_failures
    \/ /\ a.consecutive_ping_failures = b.consecutive_ping_failures
       /\ \/ Staleness(a, now_ts_ms) > Staleness(b, now_ts_ms)
          \/ /\ Staleness(a, now_ts_ms) = Staleness(b, now_ts_ms)
             /\ a.addr > b.addr

(* faulty variant: only the failure count makes a peer evictable *)
select_eviction_candidate_failures_only(c, peers, now_ts_ms) ==
    IF DOMAIN peers = {} THEN NoAddr
    ELSE LET best == CHOOSE a \in DOMAIN peers :
                         \A b \in DOMAIN peers \ {a} :
                             ScoreGreater(peers[a], peers[b], now_ts_ms)
         IN  IF peers[best].consecutive_ping_failures >= 3 THEN best ELSE NoAddr

select_eviction_candidate(c, peers, now_ts_ms) ==
    IF DOMAIN peers = {} THEN NoAddr
    ELSE LET best == CHOOSE a \in DOMAIN peers :
                         \A b \in DOMAIN peers \ {a} :
                             ScoreGreater(peers[a], peers[b], now_ts_ms)
         IN  IF \/ peers[best].consecutive_ping_failures >= 3
                \/ Staleness(peers[best], now_ts_ms) > c.peer_timeout_s * 1000
             THEN best ELSE NoAddr

Without(peers, a) == [b \in DOMAIN peers \ {a} |-> peers[b]]

UpsertResult(peers, action, evicted) ==
    [peers |-> peers, action |-> action, evicted |-> evicted]

(* faulty variant: an update writes every field of the record it is given *)
upsert_overwrites(c, self_addr, peers, addr, node_id, last_seen_ts_ms, source, mark_hello_verified, now_ts_ms) ==
    IF addr = self_addr THEN UpsertResult(peers, "ignored", NoAddr)
    ELSE IF addr \in DOMAIN peers
    THEN UpsertResult([peers EXCEPT ![addr] =
                          PeerRecord(addr, node_id, last_seen_ts_ms, mark_hello_verified, source)],
                      "updated", NoAddr)
    ELSE LET record == PeerRecord(addr, node_id, last_seen_ts_ms, mark_hello_verified, source)
         IN  IF Cardinality(DOMAIN peers) >= c.peer_limit
             THEN LET evict == select_eviction_candidate(c, peers, now_ts_ms)
                  IN  IF evict = NoAddr THEN UpsertResult(peers, "ignored", NoAddr)
                      ELSE UpsertResult((addr :> record) @@ Without(peers, evict),
                                        "added", evict)
             ELSE UpsertResult((addr :> record) @@ peers, "added", NoAddr)

upsert(c, self_addr, peers, addr, node_id, last_seen_ts_ms, source, mark_hello_verified, now_ts_ms) ==
    IF addr = self_addr THEN UpsertResult(peers, "ignored", NoAddr)
    ELSE IF addr \in DOMAIN peers
    THEN LET existing == peers[addr]
             updated ==
                 [existing EXCEPT
                     !.node_id = IF node_id # NoneId THEN node_id ELSE @,
                     !.last_seen_ts_ms =
                         IF last_seen_ts_ms # NoneTs THEN last_seen_ts_ms ELSE @,
                     !.source = source,
                     !.is_verified_hello = IF mark_hello_verified THEN TRUE ELSE @]
         IN  UpsertResult([peers EXCEPT ![addr] = updated], "updated", NoAddr)
    ELSE LET record == PeerRecord(addr, node_id, last_seen_ts_ms, mark_hello_verified, source)
         IN  IF Cardinality(DOMAIN peers) >= c.peer_limit
             THEN LET evict == select_eviction_candidate(c, peers, now_ts_ms)
                  IN  IF evict = NoAddr THEN UpsertResult(peers, "ignored", NoAddr)
                      ELSE UpsertResult((addr :> record) @@ Without(peers, evict),
                                        "added", evict)
             ELSE UpsertResult((addr :> record) @@ peers, "added", NoAddr)

touch_sender(c, s, msg, source, mark_hello_verified, t) ==
    [s EXCEPT !.peers = upsert(c, s.self_addr, s.peers, msg.sender_addr, msg.sender_id,
                               now_ms(t), source, mark_hello_verified, now_ms(t)).peers]

validate_hello(c, msg) ==
    IF ~({"udp", "json"} \subseteq msg.capabilities) THEN FALSE
    ELSE IF c.pow_k <= 0 THEN TRUE
    ELSE IF ~msg.has_pow THEN FALSE
    ELSE IF msg.pow.hash_alg # "sha256" THEN FALSE
    ELSE IF msg.pow.difficulty_k # c.pow_k THEN FALSE
    ELSE IF msg.pow.digest_hex = <<>> THEN FALSE
    ELSE LET expected ==
                 sha256_hexdigest(DecText(msg.pow.nonce) \o IdText(msg.sender_id))
         IN  /\ msg.pow.digest_hex = expected
             /\ startswith(msg.pow.digest_hex, Zeros(c.pow_k))

RECURSIVE CreatePowSearch(_, _, _)
CreatePowSearch(node_id, k, nonce) ==
    LET digest == sha256_hexdigest(DecText(nonce) \o IdText(node_id))
    IN  IF startswith(digest, Zeros(k))
        THEN [hash_alg |-> "sha256", difficulty_k |-> k, nonce |-> nonce, digest_hex |-> digest]
        ELSE CreatePowSearch(node_id, k, nonce + 1)

(* random.getrandbits(32) until the digest fits: some fitting nonce; the    *)
(* least one stands for it                                                  *)
create_pow(node_id, k) == CreatePowSearch(node_id, k, 0)

rt_message(s, type) == Msg(type, "u", s.node_id, s.self_addr, 0)

build_hello(c, s) ==
    IF c.pow_k > 0
    THEN [rt_message(s, "HELLO") EXCEPT !.has_pow = TRUE,
                                        !.pow = create_pow(s.node_id, c.pow_k)]
    ELSE rt_message(s, "HELLO")

bootstrap_join(c, s, bootstrap) ==
    IF bootstrap = s.self_addr THEN Res([s EXCEPT !.connected = TRUE], <<>>)
    ELSE Res([s EXCEPT !.connected = TRUE],
             <<Send(build_hello(c, s), bootstrap),
               Send([rt_message(s, "GET_PEERS") EXCEPT !.max_peers = c.peer_limit],
                    bootstrap)>>)

handle_hello(c, s, msg, peer, t) ==
    IF ~validate_hello(c, msg) THEN ResLog(s, <<>>, <<LogLine("hello_rejected", "", peer)>>)
    ELSE ResLog(touch_sender(c, s, msg, "hello", TRUE, t), <<>>,
                <<LogLine("hello_accepted", "", peer)>>)

(* sorted(self._peers), skipping excluded addresses and records without id  *)
RECURSIVE ListForPeersList(_, _, _, _)
ListForPeersList(peers, todo, limit, acc) ==
    IF todo = {} THEN acc
    ELSE LET addr == CHOOSE a \in todo : \A b \in todo : a <= b
             acc1 == IF peers[addr].node_id = NoneId THEN acc
                     ELSE Append(acc, [node_id |-> peers[addr].node_id, addr |-> addr])
         IN  IF Len(acc1) > Len(acc) /\ Len(acc1) >= limit THEN acc1
             ELSE ListForPeersList(peers, todo \ {addr}, limit, acc1)

list_for_peers_list(s, limit, exclude_addrs) ==
    ListForPeersList(s.peers, DOMAIN s.peers \ ({s.self_addr} \cup exclude_addrs), limit, <<>>)

handle_get_peers(c, s, msg, peer, t) ==
    IF msg.max_peers < 1 THEN Res(s, <<>>)
    ELSE LET s1 == touch_sender(c, s, msg, "hello", FALSE, t)
             limit == Min(msg.max_peers, c.peer_limit)
             peers_payload == list_for_peers_list(s1, limit, {s.self_addr, msg.sender_addr})
         IN  Res(s1, <<Send([rt_message(s, "PEERS_LIST") EXCEPT !.peers = peers_payload],
                            peer)>>)

RECURSIVE RtPeersListLoop(_, _, _, _, _)
RtPeersListLoop(c, s, entries, seen_addrs, t) ==
    IF entries = <<>> THEN s
    ELSE LET entry == Head(entries)
         IN  IF entry.addr = s.self_addr \/ entry.addr \in seen_addrs
             THEN RtPeersListLoop(c, s, Tail(entries), seen_addrs, t)
             ELSE RtPeersListLoop(c,
                      [s EXCEPT !.peers = upsert(c, s.self_addr, s.peers, entry.addr,
                                                 entry.node_id, NoneTs, "peers_list", FALSE,
                                                 now_ms(t)).peers],
                      Tail(entries), seen_addrs \cup {entry.addr}, t)

handle_peers_list(c, s, msg, peer, t) ==
    Res(RtPeersListLoop(c, touch_sender(c, s, msg, "hello", FALSE, t), msg.peers, {}, t), <<>>)

handle_ping(c, s, msg, peer, t) ==
    Res(touch_sender(c, s, msg, "hello", FALSE, t), <<Send(rt_message(s, "PONG"), peer)>>)

handle_pong(c, s, msg, peer, t) == Res(touch_sender(c, s, msg, "hello", FALSE, t), <<>>)

(* validate_message passed; MessageDispatcher.dispatch *)
dispatch(c, s, msg, peer, t) ==
    CASE msg.msg_type = "HELLO"      -> handle_hello(c, s, msg, peer, t)
      [] msg.msg_type = "GET_PEERS"  -> handle_get_peers(c, s, msg, peer, t)
      [] msg.msg_type = "PEERS_LIST" -> handle_peers_list(c, s, msg, peer, t)
      [] msg.msg_type = "PING"       -> handle_ping(c, s, msg, peer, t)
      [] msg.msg_type = "PONG"       -> handle_pong(c, s, msg, peer, t)
      [] OTHER                       -> Res(s, <<>>)

on_datagram(c, s, d, peer, t) ==
    IF d.decode # "ok" THEN ResLog(s, <<>>, <<LogLine("recv_invalid_json", "", peer)>>)
    ELSE IF validate_message(d) # "ok"
    THEN ResLog(s, <<>>, <<LogLine("recv_invalid_schema", "", peer)>>)
    ELSE dispatch(c, s, d.msg, peer, t)

(* NodeRuntime: run(), stop(), close() and the transport callbacks.  The    *)
(* log keeps the lines of the life cycle.                                   *)

(* JsonlLogger.log as the event loop's one thread runs it *)
log_event(s, event) ==
    IF s.logger.closed THEN s ELSE [s EXCEPT !.logger.lines = Append(@, event)]

(* faulty variant: every request to stop is logged *)
stop_logs_always(s) == [log_event(s, "node_stop_requested") EXCEPT !.stop_event = TRUE]

stop(s) ==
    IF ~s.stop_event
    THEN [log_event(s, "node_stop_requested") EXCEPT !.stop_event = TRUE]
    ELSE s

on_connection_lost(s) == stop(log_event(s, "node_transport_closed"))

(* run() up to its wait: the endpoint is made and on_connection_made runs *)
run_open(c, s, bootstrap) ==
    LET r == bootstrap_join(c, s, bootstrap)
    IN  [r EXCEPT !.s.transport = "open"]

(* the finally block of run(): transport.close() is a no-op on a transport  *)
(* that is lost already                                                     *)
run_finally(s) ==
    log_event([s EXCEPT !.transport = IF @ = "open" THEN "closing" ELSE @,
                        !.returned = TRUE],
              "node_shutdown")

(* NodeRuntime.close: JsonlLogger.close with no other thread about *)
close(s) ==
    IF s.logger.closed THEN s
    ELSE [s EXCEPT !.logger.fp = "closed", !.logger.closed = TRUE]

(* run_node from the wake-up of run() on: the finally block of run() and    *)
(* then, with no await in between, the finally block of run_node            *)
run_node_exit(s) == close(run_finally(s))

----------------------------------------------------------------------------
(* The environment: what a datagram from outside can be.                    *)

EXT_ADDR == 7000

ForeignMsgIds == {"m1"}
OwnMsgId(n) == <<"o1", "o2", "o3", "o4", "o5", "o6">>[n]
ReplayMsgIds == {"m1", "m2"}
AllMsgIds == ForeignMsgIds \cup ReplayMsgIds \cup {OwnMsgId(n) : n \in Nodes}

(* who a datagram claims to be from, and the address it arrives from *)
Senders ==
    {<<NodeIdOf(1), AddrOf(1)>>, <<NodeIdOf(2), AddrOf(2)>>, <<"x", EXT_ADDR>>}

(* credentials a HELLO may carry: honest ones, and tampered ones *)
PowChoices(id) ==
    {compute_pow(id, 1),
     [compute_pow(id, 1) EXCEPT !.digest_hex = <<0, 0>>],
     [hash_alg |-> "sha256", difficulty_k |-> 1, nonce |-> 0,
      digest_hex |-> sha256_hexdigest(IdText(id) \o DecText(0))]}

PeerEntries ==
    {[node_id |-> NodeIdOf(2), addr |-> AddrOf(2)], [node_id |-> "x", addr |-> EXT_ADDR],
     [node_id |-> NodeIdOf(1), addr |-> AddrOf(1)], [node_id |-> "x", addr |-> AddrOf(1)]}
PeerLists == {<<e>> : e \in PeerEntries}
             \cup {<<e, f>> : e \in PeerEntries \ {[node_id |-> NodeIdOf(1), addr |-> AddrOf(1)]},
                              f \in PeerEntries \ {[node_id |-> NodeIdOf(1), addr |-> AddrOf(1)]}}
IdLists(ids) == {<<i>> : i \in ids} \cup {<<i, j>> : i \in ids, j \in ids}

MemberMsgs(id, src) ==
    LET M(type) == Msg(type, "u", id, src, 0)
    IN  {M("HELLO")} \cup {[M("HELLO") EXCEPT !.has_pow = TRUE, !.pow = w] : w \in PowChoices(id)}
        \cup {[M("GET_PEERS") EXCEPT !.max_peers = k] : k \in 1 .. MaxPeerLimit}
        \cup {[M("PEERS_LIST") EXCEPT !.peers = l] : l \in PeerLists}
        \cup {M("PING"), M("PONG"), M("BOGUS")}

GossipMsgs(id, src, ids) ==
    LET M(type) == Msg(type, "u", id, src, 0)
    IN  {[M("GOSSIP") EXCEPT !.msg_id = m, !.ttl = k] : m \in ids, k \in -1 .. MaxTtl}
        \cup {[M("IHAVE") EXCEPT !.ids = l] : l \in IdLists(ids)}
        \cup {[M("IWANT") EXCEPT !.ids = l] : l \in IdLists(ids)}

----------------------------------------------------------------------------
(* The steps.                                                               *)

MissedOf(peers, id) ==
    IF id \in PeerIds(peers) THEN peers[PeerIndex(peers, id)].missed_pongs ELSE -1

(* ev: the kind of the last step; the type, sender, id and ttl of the       *)
(* datagram it handled; the sender's missed_pongs (-1: not a peer) and the  *)
(* size of the peer table before the step; the number of datagrams the step *)
(* sent and the event it logged                                             *)
Observed(kind, n, msg, missed, size, r) ==
    [kind |-> kind, node |-> n, msg_type |-> msg.msg_type, sender_id |-> msg.sender_id,
     msg_id |-> msg.msg_id, ttl |-> msg.ttl, missed_before |-> missed, size_before |-> size,
     sent |-> Len(r.out), log |-> IF r.log = <<>> THEN "" ELSE r.log[1].event]

NoStep == [s |-> <<>>, out |-> <<>>, log |-> <<>>]

NoMsg == Msg("", "", "", NoAddr, 0)

NoEvent == Observed("", 0, NoMsg, -1, 0, NoStep)

(* the closed-network specifications do not observe the steps *)
Event(kind, n, msg, missed, size, r) ==
    IF cfg.observed THEN Observed(kind, n, msg, missed, size, r) ELSE NoEvent

Route(n, sends) ==
    {[dst |-> sends[i].dst, src |-> AddrOf(n), msg |-> sends[i].msg] :
        i \in {j \in DOMAIN sends : sends[j].dst \in {AddrOf(k) : k \in cfg.running}}}

Bump(k) == Min(k + 1, 2)

SendsGossip(r, m) ==
    \E i \in DOMAIN r.out : r.out[i].msg.msg_type = "GOSSIP" /\ r.out[i].msg.msg_id = m

Pushes(kind, msg) == kind = "stdin" \/ (kind = "recv" /\ msg.msg_type = "GOSSIP")

Record(h, r, kind, msg) ==
    [m \in AllMsgIds |->
        [first_seen |->
            IF \E i \in DOMAIN r.log : r.log[i].msg_id = m THEN Bump(h[m].first_seen)
            ELSE h[m].first_seen,
         push |->
            IF Pushes(kind, msg) /\ SendsGossip(r, m) THEN Bump(h[m].push) ELSE h[m].push,
         resend |->
            IF ~Pushes(kind, msg) /\ SendsGossip(r, m) THEN Bump(h[m].resend)
            ELSE h[m].resend]]

Step(n, r, kind, msg, consumed) ==
    /\ gn' = [gn EXCEPT ![n] = r.s]
    /\ net' = (net \ consumed) \cup Route(n, r.out)
    /\ ev' = Event(kind, n, msg, MissedOf(gn[n].peers, msg.sender_id), Len(gn[n].peers), r)
    /\ hist' = [hist EXCEPT ![n] = Record(@, r, kind, msg)]
    /\ UNCHANGED <<now, cfg, rt, threads>>

(* the outcomes of one shuffle of the peer list *)
PeerPerms == Perms(cfg.peer_limit)

IdPerm == [i \in 1 .. cfg.peer_limit |-> i]

(* only a first-seen GOSSIP with ttl > 0 draws from the random generator *)
PermsFor(s, msg) ==
    IF msg.msg_type = "GOSSIP" /\ msg.ttl > 0 /\ msg.msg_id \notin s.seen_msgs
    THEN PeerPerms ELSE {IdPerm}

Orders(S) == {o \in [1 .. Cardinality(S) -> S] : Range(o) = S}

Start(n) ==
    /\ ~gn[n].started
    /\ Step(n, start(cfg, gn[n], cfg.bootstrap[n]), "start", NoMsg, {})

Deliver(n) ==
    /\ gn[n].started
    /\ \E d \in net :
        \E perm \in PermsFor(gn[n], d.msg) :
          /\ d.dst = AddrOf(n)
          /\ Step(n, handle_datagram(cfg, gn[n], d.msg, d.src, now, perm),
                  "recv", d.msg, {d})

EnvMember(n) ==
    /\ gn[n].started
    /\ \E from \in Senders :
          \E msg \in MemberMsgs(from[1], from[2]) :
            \E perm \in PermsFor(gn[n], msg) :
              Step(n, handle_datagram(cfg, gn[n], msg, from[2], now, perm),
                   "recv", msg, {})

(* a msg_id is a uuid4: nobody names it before its originator has made it *)
Originated(m) == m \in ForeignMsgIds \/ \E k \in Nodes : m \in gn[k].seen_msgs

EnvGossip(n) ==
    /\ gn[n].started
    /\ \E from \in Senders :
          \E msg \in GossipMsgs(from[1], from[2], {m \in AllMsgIds : Originated(m)}) :
            \E perm \in PermsFor(gn[n], msg) :
              Step(n, handle_datagram(cfg, gn[n], msg, from[2], now, perm), "recv", msg, {})

PingLoop(n) ==
    /\ gn[n].started
    /\ \E perm \in PeerPerms :
          Step(n, ping_loop(cfg, gn[n], now, perm), "ping", NoMsg, {})

PullLoop(n) ==
    /\ gn[n].started
    /\ \E perm \in PeerPerms, order \in Orders(gn[n].seen_msgs) :
        \E perm2 \in Perms(Len(order)) :
          Step(n, pull_loop(cfg, gn[n], order, perm, perm2), "pull", NoMsg, {})

DiscoveryLoop(n) ==
    /\ gn[n].started
    /\ \E perm \in PeerPerms :
          Step(n, discovery_loop(cfg, gn[n], perm), "discovery", NoMsg, {})

Stdin(n) ==
    /\ gn[n].started
    /\ cfg.stdin_enabled[n]
    /\ gn[n].originated = 0
    /\ \E perm \in PeerPerms :
          Step(n, stdin_gossip(cfg, gn[n], OwnMsgId(n), perm), "stdin", NoMsg, {})

(* NodeRuntime: on_connection_made and on_datagram *)

RtPeerLists ==
    PeerLists \cup {<<[node_id |-> NoneId, addr |-> AddrOf(2)], e>> : e \in PeerEntries}

RtMsgs(id, addr) ==
    LET M(type) == Msg(type, "u", id, addr, 0)
    IN  (MemberMsgs(id, addr) \ {m \in MemberMsgs(id, addr) : m.msg_type = "PEERS_LIST"})
        \cup {[M("PEERS_LIST") EXCEPT !.peers = l] : l \in RtPeerLists}
        \cup {[M("HELLO") EXCEPT !.capabilities = {"udp"}],
              [M("GET_PEERS") EXCEPT !.max_peers = 0],
              [M("HELLO") EXCEPT !.has_pow = TRUE, !.pow = create_pow(id, 1)],
              [M("GOSSIP") EXCEPT !.msg_id = "m1"]}

RtStep(r, kind, msg) ==
    /\ rt' = r.s
    /\ ev' = Event(kind, 0, msg, -1, Cardinality(DOMAIN rt.peers), r)
    /\ UNCHANGED <<now, cfg, gn, net, hist, threads>>

RtConnect ==
    /\ ~rt.connected
    /\ RtStep(bootstrap_join(cfg, rt, cfg.bootstrap[1]), "start", NoMsg)

RtDatagram ==
    /\ rt.connected
    /\ \E from \in Senders :
          \E msg \in RtMsgs(from[1], from[2]) :
              RtStep(dispatch(cfg, rt, msg, from[2], now), "recv", msg)

Tick ==
    /\ now < MaxTime
    /\ now' = now + 1
    /\ ev' = Event("tick", 0, NoMsg, -1, 0, NoStep)
    /\ UNCHANGED <<cfg, gn, rt, net, hist, threads>>

----------------------------------------------------------------------------
(* Spec: one GossipNode and the membership datagrams, timers and clock.     *)

(* peer_timeout counts clock ticks: 0 is a timeout shorter than one tick *)
Config(fanout, ttl, peer_limit, peer_timeout, pow_k, pull_interval, bootstrap, running) ==
    [fanout |-> fanout, ttl |-> ttl, peer_limit |-> peer_limit,
     peer_timeout |-> peer_timeout, pull_interval |-> pull_interval, ihave_max_ids |-> 2,
     pow_k |-> pow_k, stdin_enabled |-> [n \in Nodes |-> TRUE], discovery_interval |-> 1,
     bootstrap |-> bootstrap, running |-> running, impl |-> "GossipNode",
     peer_timeout_s |-> 1, observed |-> TRUE, ping_interval |-> 1]

InitCommon ==
    /\ now = 1
    /\ gn = [n \in Nodes |-> GossipNodeInit(n)]
    /\ rt = RuntimeInit
    /\ net = {}
    /\ ev = NoEvent
    /\ hist = [n \in Nodes |->
                 [m \in AllMsgIds |-> [first_seen |-> 0, push |-> 0, resend |-> 0]]]
    /\ threads = <<>>

Init ==
    /\ InitCommon
    /\ \E peer_limit \in 1 .. MaxPeerLimit, impl \in {"GossipNode", "NodeRuntime"} :
          cfg = [Config(1, 1, peer_limit, 0, 1, 1,
                        [n \in Nodes |-> IF n = 1 /\ impl = "GossipNode"
                                         THEN AddrOf(1) ELSE AddrOf(2)], {})
                 EXCEPT !.impl = impl]

Next ==
    \/ cfg.impl = "GossipNode" /\ Start(1)
    \/ cfg.impl = "GossipNode" /\ EnvMember(1)
    \/ cfg.impl = "GossipNode" /\ PingLoop(1)
    \/ cfg.impl = "GossipNode" /\ DiscoveryLoop(1)
    \/ cfg.impl = "NodeRuntime" /\ RtConnect
    \/ cfg.impl = "NodeRuntime" /\ RtDatagram
    \/ Tick

Spec == Init /\ [][Next]_vars

----------------------------------------------------------------------------
(* SpecGossip: one GossipNode and the dissemination datagrams.              *)

InitGossip ==
    /\ InitCommon
    /\ \E fanout \in 1 .. 2 :
          cfg = Config(fanout, 1, MaxPeerLimit, 1, 0, 1, [n \in Nodes |-> NoAddr], {})

NextGossip ==
    \/ Start(1)
    \/ EnvGossip(1)
    \/ PullLoop(1)
    \/ Stdin(1)

SpecGossip == InitGossip /\ [][NextGossip]_vars

----------------------------------------------------------------------------
(* The closed network: running nodes exchange datagrams without loss.  A    *)
(* timer period is long against the delivery of a datagram: a periodic task *)
(* runs when the datagrams of the earlier steps have been delivered.        *)

Quiet == net = {}

PingTimer(n) == Quiet /\ n \in cfg.running /\ PingLoop(n)

PullTimer(n) == Quiet /\ n \in cfg.running /\ PullLoop(n)

DiscoveryTimer(n) == Quiet /\ n \in cfg.running /\ DiscoveryLoop(n)

(* SpecPair: node A (1) and node B (2, bootstrapped to A), fanout = 1,      *)
(* ttl = 1; A reads gossip from stdin.                                      *)

A == 1
B == 2
Pair == {A, B}

InitPair ==
    /\ InitCommon
    /\ \E pull_interval \in 0 .. 1 :
          cfg = [Config(1, 1, MaxPeerLimit, 1, 0, pull_interval,
                        [n \in Nodes |-> IF n = B THEN AddrOf(A) ELSE NoAddr], Pair)
                 EXCEPT !.stdin_enabled = [n \in Nodes |-> n = A], !.observed = FALSE]

NextPair ==
    \/ \E n \in Pair : Start(n)
    \/ \E n \in Pair : Deliver(n)
    \/ Stdin(A)
    \/ \E n \in Pair : PingTimer(n)
    \/ \E n \in Pair : PullTimer(n)
    \/ \E n \in Pair : DiscoveryTimer(n)
    \/ Tick

(* the event loop handles every datagram its socket has received *)
FairPair == \A n \in Pair : WF_vars(Deliver(n))

SpecPair == InitPair /\ [][NextPair]_vars /\ FairPair

(* SpecOverlay: the overlay after warm-up (HELLO, PEERS_LIST and discovery  *)
(* rounds have made every node a peer of every other), fanout = 1, and one  *)
(* GOSSIP sent from outside the overlay to node 2.                          *)

Injected == "m1"

Mesh(n) ==
    LET others == SelectSeq([k \in 1 .. NumNodes |-> k], LAMBDA k : k # n)
    IN  [i \in DOMAIN others |-> PeerInfo(NodeIdOf(others[i]), AddrOf(others[i]), 1)]

InitOverlay ==
    /\ now = 1
    /\ gn = [n \in Nodes |-> [GossipNodeInit(n) EXCEPT !.peers = Mesh(n), !.started = TRUE]]
    /\ rt = RuntimeInit
    /\ ev = NoEvent
    /\ hist = [n \in Nodes |->
                 [m \in AllMsgIds |-> [first_seen |-> 0, push |-> 0, resend |-> 0]]]
    /\ threads = <<>>
    /\ \E ttl \in {0, NumNodes}, pull_interval \in 0 .. 1 :
          /\ cfg = [Config(1, ttl, NumNodes, 1, 0, pull_interval,
                           [n \in Nodes |-> AddrOf(1)], Nodes)
                    EXCEPT !.stdin_enabled = [n \in Nodes |-> FALSE], !.observed = FALSE]
          /\ net = {[dst |-> AddrOf(2), src |-> EXT_ADDR,
                     msg |-> Msg("GOSSIP", Injected, "x", EXT_ADDR, ttl)]}

(* the shuffle outcome that starts at position j and goes round *)
Rotation(j) == [i \in 1 .. cfg.peer_limit |-> ((i + j - 2) % cfg.peer_limit) + 1]

(* a pull round of node n in which the shuffle puts its j-th peer first *)
PullRound(n, j) ==
    /\ Quiet
    /\ gn[n].started
    /\ \E order \in Orders(gn[n].seen_msgs) :
          Step(n, pull_loop(cfg, gn[n], order, Rotation(j), [i \in DOMAIN order |-> i]),
               "pull", NoMsg, {})

NextOverlay ==
    \/ \E n \in Nodes : Deliver(n)
    \/ \E n \in Nodes : \E j \in 1 .. NumNodes : PullRound(n, j)

(* every datagram received is handled; the pull timer keeps firing, and no  *)
(* outcome of its shuffle stays away for ever                               *)
FairOverlay ==
    /\ WF_vars(\E n \in Nodes : Deliver(n))
    /\ \A n \in Nodes : \A j \in 1 .. NumNodes - 1 : SF_vars(PullRound(n, j))

SpecOverlay == InitOverlay /\ [][NextOverlay]_vars /\ FairOverlay

----------------------------------------------------------------------------
(* SpecReplay: two runs of one node, started with the same port and seed    *)
(* and given the same datagrams, clock and timer firings.  gn[1] and gn[2]  *)
(* are the two runs; net holds what each run sent in the last step.  The    *)
(* seeded generator gives both runs the same shuffle outcomes; the order in *)
(* which list(self.seen_msgs) yields the ids is the set's iteration order,  *)
(* which the string hashing of the process decides: each run has its own.   *)

InitReplay ==
    /\ now = 1
    /\ gn = [n \in Nodes |-> GossipNodeInit(1)]
    /\ rt = RuntimeInit
    /\ net = {}
    /\ ev = NoEvent
    /\ hist = [n \in Nodes |->
                 [m \in AllMsgIds |-> [first_seen |-> 0, push |-> 0, resend |-> 0]]]
    /\ threads = <<>>
    /\ \E fanout \in 1 .. 2, ihave_max_ids \in 1 .. 2 :
          cfg = [Config(fanout, 1, MaxPeerLimit, 1, 0, 1, [n \in Nodes |-> NoAddr], {})
                 EXCEPT !.ihave_max_ids = ihave_max_ids, !.observed = FALSE]

Emitted(run, out) ==
    {[run |-> run, pos |-> i, dst |-> out[i].dst, msg |-> out[i].msg] : i \in DOMAIN out}

ReplayStep(r1, r2) ==
    /\ gn' = [gn EXCEPT ![1] = r1.s, ![2] = r2.s]
    /\ net' = Emitted(1, r1.out) \cup Emitted(2, r2.out)
    /\ UNCHANGED <<now, cfg, rt, ev, hist, threads>>

ReplayMsgs(id, src) ==
    {Msg("GOSSIP", m, id, src, k) : m \in ReplayMsgIds, k \in 0 .. 1}
    \cup {Msg("PING", "u", id, src, 0)}
    \cup {[Msg("IHAVE", "u", id, src, 0) EXCEPT !.ids = l] : l \in IdLists(ReplayMsgIds)}

ReplayStart ==
    /\ ~gn[1].started
    /\ ReplayStep(start(cfg, gn[1], NoAddr), start(cfg, gn[2], NoAddr))

ReplayDatagram ==
    /\ gn[1].started
    /\ \E from \in Senders \ {<<NodeIdOf(1), AddrOf(1)>>} :
          \E msg \in ReplayMsgs(from[1], from[2]) :
            \E perm \in PermsFor(gn[1], msg) :
              ReplayStep(handle_datagram(cfg, gn[1], msg, from[2], now, perm),
                         handle_datagram(cfg, gn[2], msg, from[2], now, perm))

ReplayPull ==
    /\ gn[1].started
    /\ \E perm \in PeerPerms :
        \E order1 \in Orders(gn[1].seen_msgs), order2 \in Orders(gn[2].seen_msgs) :
          \E perm2 \in Perms(Len(order1)) :
            ReplayStep(pull_loop(cfg, gn[1], order1, perm, perm2),
                       pull_loop(cfg, gn[2], order2, perm, perm2))

ReplayPing ==
    /\ gn[1].started
    /\ \E perm \in PeerPerms :
          ReplayStep(ping_loop(cfg, gn[1], now, perm), ping_loop(cfg, gn[2], now, perm))

NextReplay ==
    \/ ReplayStart
    \/ ReplayDatagram
    \/ ReplayPull
    \/ ReplayPing

SpecReplay == InitReplay /\ [][NextReplay]_vars

----------------------------------------------------------------------------
(* Properties of the membership side (Spec).                                *)

(* C2: in every reachable state the peer table of a node holds at most      *)
(* peer_limit entries, for GossipNode._update_peer and for PeerStore.upsert *)
PeerTableBounded ==
    /\ \A n \in Nodes : Len(gn[n].peers) <= cfg.peer_limit
    /\ Cardinality(DOMAIN rt.peers) <= cfg.peer_limit

(* a datagram of a sender that was no peer arrived at a full table *)
PeerTableBoundedWitness ==
    /\ ev.kind = "recv" /\ ev.node = 1 /\ ev.msg_type = "PING"
    /\ ev.sender_id # gn[1].node_id
    /\ ev.missed_before = -1
    /\ ev.size_before = cfg.peer_limit
    /\ ev.sender_id \in PeerIds(gn[1].peers)

(* the three ways the claim names in which a HELLO fails the proof of work *)
PowFails(msg, recomputed) ==
    \/ ~msg.has_pow
    \/ msg.pow.digest_hex # recomputed
    \/ ~startswith(msg.pow.digest_hex, Zeros(cfg.pow_k))

(* C4: with k_pow > 0, a HELLO whose credential is missing, whose digest is *)
(* not the recomputed one or does not start with k zeros leaves the peer    *)
(* view as it was and is answered by no datagram, in both implementations   *)
PowRejection ==
    cfg.pow_k > 0 =>
        \A from \in Senders :
            \A msg \in {m \in RtMsgs(from[1], from[2]) : m.msg_type = "HELLO"} :
                /\ PowFails(msg, sha256_hexdigest(IdText(msg.sender_id)
                                                  \o DecText(msg.pow.nonce)))
                     => LET r == handle_datagram(cfg, gn[1], msg, from[2], now, IdPerm)
                        IN  r.s.peers = gn[1].peers /\ r.out = <<>>
                /\ PowFails(msg, sha256_hexdigest(DecText(msg.pow.nonce)
                                                  \o IdText(msg.sender_id)))
                     => LET r == dispatch(cfg, rt, msg, from[2], now)
                        IN  r.s.peers = rt.peers /\ r.out = <<>>

(* a node that has peers has just turned a HELLO down *)
PowRejectionWitness ==
    /\ cfg.pow_k > 0
    /\ ev.kind = "recv" /\ ev.node = 1 /\ ev.msg_type = "HELLO"
    /\ ev.sent = 0
    /\ ev.missed_before = -1
    /\ gn[1].peers # <<>>

(* C5: after a PONG of a sender X other than the node itself has been       *)
(* processed, X is in the peer table with missed_pongs = 0                  *)
PongResetsMissed ==
    /\ (ev.kind = "recv" /\ ev.msg_type = "PONG" /\ ev.node \in Nodes
            /\ ev.sender_id # gn[ev.node].node_id)
          => /\ ev.sender_id \in PeerIds(gn[ev.node].peers)
             /\ MissedOf(gn[ev.node].peers, ev.sender_id) = 0
    /\ \A from \in Senders :
          from[1] # gn[1].node_id =>
              LET r == handle_datagram(cfg, gn[1], Msg("PONG", "u", from[1], from[2], 0),
                                       from[2], now, IdPerm)
              IN  MissedOf(r.s.peers, from[1]) = 0

(* the PONG came from a peer that had missed a PING *)
PongResetsMissedWitness ==
    /\ ev.kind = "recv" /\ ev.node = 1 /\ ev.msg_type = "PONG"
    /\ ev.missed_before > 0
    /\ MissedOf(gn[1].peers, ev.sender_id) = 0

(* C10: no peer table holds an entry for the node itself, neither under its *)
(* own node_id nor under its own address                                    *)
NoSelfEntry ==
    /\ \A n \in Nodes : \A i \in DOMAIN gn[n].peers :
          /\ gn[n].peers[i].node_id # gn[n].node_id
          /\ gn[n].peers[i].addr # gn[n].self_addr
    /\ \A a \in DOMAIN rt.peers :
          /\ a # rt.self_addr
          /\ rt.peers[a].node_id # rt.node_id

----------------------------------------------------------------------------
(* Properties of the dissemination side (SpecGossip).                       *)

GossipFrom(from, m, k) == [Msg("GOSSIP", m, from[1], from[2], k) EXCEPT !.msg_id = m]

(* C1: a node first-sees and pushes a msg_id at most once; a GOSSIP whose   *)
(* msg_id is in seen_msgs sends nothing and leaves seen_msgs and            *)
(* gossip_cache as they were                                                *)
ForwardAtMostOnce ==
    /\ \A n \in Nodes : \A m \in AllMsgIds :
          hist[n][m].first_seen <= 1 /\ hist[n][m].push <= 1
    /\ \A from \in Senders : \A m \in gn[1].seen_msgs : \A k \in -1 .. MaxTtl :
          \A perm \in PeerPerms :
              LET r == handle_datagram(cfg, gn[1], GossipFrom(from, m, k), from[2], now, perm)
              IN  /\ r.out = <<>>
                  /\ r.log = <<>>
                  /\ r.s.seen_msgs = gn[1].seen_msgs
                  /\ r.s.gossip_cache = gn[1].gossip_cache

(* a second copy of a pushed msg_id has arrived *)
ForwardAtMostOnceWitness ==
    /\ ev.kind = "recv" /\ ev.node = 1 /\ ev.msg_type = "GOSSIP"
    /\ ev.msg_id = "m1" /\ ev.ttl > 0
    /\ ev.sent = 0 /\ ev.log = ""
    /\ hist[1]["m1"].push = 1
    /\ Len(gn[1].peers) = 2

(* C3: a forwarded GOSSIP carries the received ttl minus one, never below   *)
(* zero; a GOSSIP first seen with ttl = 0 is put in seen_msgs, cached and   *)
(* logged, and not forwarded                                                *)
TtlDecrement ==
    \A from \in Senders : \A m \in {i \in AllMsgIds : Originated(i)} : \A k \in -1 .. MaxTtl :
        \A perm \in PeerPerms :
            LET r == handle_datagram(cfg, gn[1], GossipFrom(from, m, k), from[2], now, perm)
            IN  /\ \A i \in DOMAIN r.out :
                      /\ r.out[i].msg.msg_type = "GOSSIP"
                      /\ r.out[i].msg.msg_id = m
                      /\ r.out[i].msg.ttl = k - 1
                      /\ r.out[i].msg.ttl >= 0
                /\ (k = 0 /\ m \notin gn[1].seen_msgs)
                      => /\ r.out = <<>>
                         /\ m \in r.s.seen_msgs
                         /\ m \in CacheIds(r.s.gossip_cache)
                         /\ r.log = <<LogLine("GOSSIP_RECEIVED", m, from[2])>>

(* a first-seen GOSSIP with ttl = 1 has been forwarded *)
TtlDecrementWitness ==
    /\ ev.kind = "recv" /\ ev.node = 1 /\ ev.msg_type = "GOSSIP"
    /\ ev.ttl = 1
    /\ ev.log = "GOSSIP_RECEIVED"
    /\ ev.sent >= 1

----------------------------------------------------------------------------
(* Properties of the two-node scenario (SpecPair).                          *)

m1A == OwnMsgId(A)

(* C9: a GOSSIP that A originates and pushes is first seen by B, B emits no *)
(* GOSSIP for it, and afterwards seen_msgs of A and of B is exactly that id *)
TwoNodePush ==
    /\ [](/\ hist[B][m1A].push = 0
          /\ hist[B][m1A].resend = 0
          /\ \A d \in net : d.msg.msg_type = "GOSSIP" => d.src = AddrOf(A))
    /\ (hist[A][m1A].push = 1)
          ~> [](/\ gn[A].seen_msgs = {m1A}
                /\ gn[B].seen_msgs = {m1A}
                /\ hist[B][m1A].first_seen = 1)

(* B has first seen the GOSSIP that A pushed, and it is in flight no more *)
TwoNodePushWitness ==
    /\ hist[A][m1A].push = 1
    /\ hist[B][m1A].first_seen = 1
    /\ gn[A].seen_msgs = {m1A} /\ gn[B].seen_msgs = {m1A}
    /\ A \in {k \in Nodes : NodeIdOf(k) \in PeerIds(gn[B].peers)}
    /\ net = {}

----------------------------------------------------------------------------
(* Properties of the overlay (SpecOverlay).                                 *)

FirstSeenBy(m) == {n \in Nodes : hist[n][m].first_seen >= 1}

Holders(m) == {a \in Nodes : m \in CacheIds(gn[a].gossip_cache)}

KnowsHolder(n, m) == \E a \in Holders(m) : NodeIdOf(a) \in PeerIds(gn[n].peers)

ExchangeDelivers(m) ==
    \A a \in Holders(m) : \A b \in Nodes \ {a} :
        m \notin gn[b].seen_msgs =>
            LET rb == handle_datagram(cfg, gn[b], make_ihave(cfg, gn[a], <<m>>), AddrOf(a),
                                      now, IdPerm)
            IN  /\ rb.out = <<Send(make_iwant(cfg, rb.s, <<m>>), AddrOf(a))>>
                /\ LET ra == handle_datagram(cfg, gn[a], rb.out[1].msg, AddrOf(b), now, IdPerm)
                   IN  /\ ra.out = <<Send(CacheGet(gn[a].gossip_cache, m), AddrOf(b))>>
                       /\ \A perm \in PeerPerms :
                             LET rb2 == handle_datagram(cfg, rb.s, ra.out[1].msg, AddrOf(a),
                                                        now, perm)
                             IN  /\ m \in rb2.s.seen_msgs
                                 /\ Len(rb2.log) = 1
                                 /\ rb2.log[1].event = "GOSSIP_RECEIVED"

----------------------------------------------------------------------------
(* Properties of the replay (SpecReplay).                                   *)

(* C8: the two runs send the same datagrams in the same order: the same     *)
(* destinations, message types and IHAVE id lists                           *)
ReplaySameSends ==
    \A d \in net :
        \E e \in net :
            /\ e.run # d.run
            /\ e.pos = d.pos
            /\ e.dst = d.dst
            /\ e.msg.msg_type = d.msg.msg_type
            /\ e.msg.ids = d.msg.ids

----------------------------------------------------------------------------
(* Properties of the peer tables.                                           *)

(* C11: no peer table holds two entries with the same address; the store of *)
(* the NodeRuntime files every record under its own address                 *)
NoDuplicateAddr ==
    /\ \A n \in Nodes : \A i, j \in DOMAIN gn[n].peers :
          gn[n].peers[i].addr = gn[n].peers[j].addr => i = j
    /\ \A a \in DOMAIN rt.peers : rt.peers[a].addr = a

----------------------------------------------------------------------------
(* Properties of the pure PUSH mode (SpecOverlay with pull_interval = 0).   *)

----------------------------------------------------------------------------
(* Properties of the admission into a full table (Spec).                    *)

(* the addresses a datagram or a PEERS_LIST entry may name *)
Addrs == {AddrOf(n) : n \in Nodes} \cup {EXT_ADDR}

(* a peer the store may evict: 3 missed pongs, or not seen for longer than  *)
(* peer_timeout                                                             *)
Evictable(record) ==
    \/ record.consecutive_ping_failures >= 3
    \/ Staleness(record, now_ms(now)) > cfg.peer_timeout_s * 1000

(* upsert of a new address, as _touch_sender and handle_peers_list call it *)
Admission(addr, last_seen_ts_ms) ==
    upsert(cfg, rt.self_addr, rt.peers, addr, "x", last_seen_ts_ms, "hello", FALSE, now_ms(now))

FullStore == Cardinality(DOMAIN rt.peers) >= cfg.peer_limit

Healthy(p) ==
    /\ p.missed_pongs < MAX_MISSED_PONGS
    /\ now - p.last_seen <= cfg.peer_timeout

(* C14: a peer evicted to admit a new peer into a full table has 3 missed   *)
(* pongs or has not been seen for longer than peer_timeout, in the table of *)
(* the GossipNode and in the store of the NodeRuntime                       *)
NoHealthyEviction ==
    /\ \A from \in Senders :
          (from[1] \notin PeerIds(gn[1].peers) /\ Len(gn[1].peers) >= cfg.peer_limit)
              => LET after == update_peer(cfg, gn[1].peers, from[1], from[2], now)
                 IN  \A i \in DOMAIN gn[1].peers :
                         gn[1].peers[i].node_id \notin PeerIds(after)
                             => ~Healthy(gn[1].peers[i])
    /\ FullStore =>
          \A addr \in Addrs \ (DOMAIN rt.peers \cup {rt.self_addr}) :
              LET r == Admission(addr, now_ms(now))
              IN  r.evicted # NoAddr => Evictable(rt.peers[r.evicted])

----------------------------------------------------------------------------
(* Properties of the PEERS_LIST replies (Spec).                             *)

GetPeersFrom(from, m) == [Msg("GET_PEERS", "u", from[1], from[2], 0) EXCEPT !.max_peers = m]

(* the PEERS_LIST datagrams among those a step sent *)
PeersListsIn(out) == {out[i] : i \in {j \in DOMAIN out : out[j].msg.msg_type = "PEERS_LIST"}}

(* C15: the PEERS_LIST that answers a GET_PEERS with max_peers = m >= 1     *)
(* holds at most min(m, peer_limit) records, in both implementations        *)
PeersListCapped ==
    \A from \in Senders : \A m \in 1 .. MaxPeerLimit + 1 :
        /\ gn[1].started =>
              \A d \in PeersListsIn(handle_datagram(cfg, gn[1], GetPeersFrom(from, m), from[2],
                                                   now, IdPerm).out) :
                  Len(d.msg.peers) <= Min(m, cfg.peer_limit)
        /\ rt.connected =>
              \A d \in PeersListsIn(dispatch(cfg, rt, GetPeersFrom(from, m), from[2], now).out) :
                  Len(d.msg.peers) <= Min(m, cfg.peer_limit)

(* the records of a PEERS_LIST name neither the node that sends it nor the  *)
(* node it is sent to                                                       *)
CleanList(d, node_id, self_addr, requester_id) ==
    \A i \in DOMAIN d.msg.peers :
        /\ d.msg.peers[i].node_id # node_id
        /\ d.msg.peers[i].addr # self_addr
        /\ d.msg.peers[i].node_id # requester_id
        /\ d.msg.peers[i].addr # d.dst

(* C16: no PEERS_LIST sent in reply to a GET_PEERS or to an accepted HELLO  *)
(* holds a record of the sending node or of the requester                   *)
PeersListExcludes ==
    \A from \in Senders \ {<<NodeIdOf(1), AddrOf(1)>>} :
        \A msg \in {m \in RtMsgs(from[1], from[2]) : m.msg_type \in {"HELLO", "GET_PEERS"}} :
            /\ gn[1].started =>
                  \A d \in PeersListsIn(handle_datagram(cfg, gn[1], msg, from[2], now, IdPerm).out) :
                      CleanList(d, gn[1].node_id, gn[1].self_addr, from[1])
            /\ rt.connected =>
                  \A d \in PeersListsIn(dispatch(cfg, rt, msg, from[2], now).out) :
                      CleanList(d, rt.node_id, rt.self_addr, from[1])

----------------------------------------------------------------------------
(* Properties of the message stores (SpecGossip).                           *)

(* C17: seen_msgs and gossip_cache of a node never hold more entries than   *)
(* the bound of the store, however many msg_ids the node receives or        *)
(* originates                                                               *)
StoresBounded ==
    \A n \in Nodes :
        /\ Len(gn[n].gossip_cache) <= CacheLimit
        /\ Cardinality(gn[n].seen_msgs) <= CacheLimit

----------------------------------------------------------------------------
(* Properties of the forwarding (SpecOverlay).                              *)

(* C18: a node that handles a GOSSIP in flight sends no copy of it to the   *)
(* address the datagram came from, whatever the shuffle yields              *)
NoEchoToSender ==
    \A d \in net :
        d.msg.msg_type = "GOSSIP" =>
            \A n \in {k \in Nodes : AddrOf(k) = d.dst} :
                \A perm \in PermsFor(gn[n], d.msg) :
                    LET r == handle_datagram(cfg, gn[n], d.msg, d.src, now, perm)
                    IN  \A i \in DOMAIN r.out : r.out[i].dst # d.src

(* the hop budget with which node n holds m in its cache *)
CachedTtl(n, m) == CacheGet(gn[n].gossip_cache, m).ttl

GossipInFlight == {d \in net : d.msg.msg_type = "GOSSIP"}

(* C19, as claimed: the ttl falls at every transmission, push forward or    *)
(* IWANT re-delivery, and a GOSSIP that entered with ttl = 0 is first seen  *)
(* by the node it was sent to and by no other                               *)
TtlSoleHopBound ==
    /\ cfg.ttl = 0 => Cardinality(FirstSeenBy(Injected)) <= 1
    /\ \A d \in GossipInFlight :
          \A n \in {k \in Nodes : AddrOf(k) = d.src} : d.msg.ttl < CachedTtl(n, d.msg.msg_id)

(* C19, as the code has it: the ttl bounds the push only.  A push forward   *)
(* carries the received ttl minus one and a copy received with ttl = 0 is   *)
(* pushed no further, so the ttl stays within 0..T and a chain holds at     *)
(* most T push forwards; an IWANT re-delivery sends the cached copy with    *)
(* the ttl it was received with                                             *)
PushHopBound ==
    /\ \A d \in GossipInFlight :
          /\ d.msg.ttl \in 0 .. cfg.ttl
          /\ \A n \in {k \in Nodes : AddrOf(k) = d.src} :
                /\ d.msg.msg_id \in CacheIds(gn[n].gossip_cache)
                /\ d.msg.ttl \in {CachedTtl(n, d.msg.msg_id) - 1, CachedTtl(n, d.msg.msg_id)}
          /\ \A n \in {k \in Nodes : AddrOf(k) = d.dst} :
                \A perm \in PermsFor(gn[n], d.msg) :
                    LET r == handle_datagram(cfg, gn[n], d.msg, d.src, now, perm)
                    IN  \A i \in DOMAIN r.out :
                            d.msg.ttl > 0 /\ r.out[i].msg.ttl = d.msg.ttl - 1
    /\ \A n \in Nodes :
          /\ \A i \in DOMAIN gn[n].gossip_cache : gn[n].gossip_cache[i].ttl \in 0 .. cfg.ttl
          /\ hist[n][Injected].push >= 1 => CachedTtl(n, Injected) > 0
          /\ (hist[n][Injected].first_seen >= 1 /\ CachedTtl(n, Injected) = 0)
                => hist[n][Injected].push = 0

(* the push has gone two hops, a copy has been re-delivered on request, and *)
(* every node has first seen the GOSSIP                                     *)
PushHopBoundWitness ==
    /\ cfg.ttl > 0
    /\ FirstSeenBy(Injected) = Nodes
    /\ \E n \in Nodes : hist[n][Injected].push = 1 /\ CachedTtl(n, Injected) = cfg.ttl - 2
    /\ \E n \in Nodes : hist[n][Injected].resend >= 1

----------------------------------------------------------------------------
(* Properties of the eviction order (Spec).                                 *)

(* a comes before b in the order (missed pongs descending, staleness        *)
(* descending, address ascending)                                           *)
Precedes(a, b) ==
    \/ a.consecutive_ping_failures > b.consecutive_ping_failures
    \/ /\ a.consecutive_ping_failures = b.consecutive_ping_failures
       /\ \/ Staleness(a, now_ms(now)) > Staleness(b, now_ms(now))
          \/ /\ Staleness(a, now_ms(now)) = Staleness(b, now_ms(now))
             /\ a.addr < b.addr

(* C20: the peer the store selects for eviction is the first of the table   *)
(* in that order: of peers with equal missed pongs and equal staleness, the *)
(* one with the smallest address                                            *)
EvictionOrder ==
    LET evict == select_eviction_candidate(cfg, rt.peers, now_ms(now))
    IN  evict # NoAddr =>
            \A b \in DOMAIN rt.peers \ {evict} : Precedes(rt.peers[evict], rt.peers[b])

----------------------------------------------------------------------------
(* Properties of the failure detector (Spec).                               *)

PongFrom(p) == Msg("PONG", "u", p.node_id, p.addr, 0)

PingSentTo(r, p) ==
    \E i \in DOMAIN r.out : r.out[i].msg.msg_type = "PING" /\ r.out[i].dst = p.addr

(* C21: a peer that answers the PING it is sent is not charged a missed     *)
(* pong: when a round of the ping loop has sent a PING to a peer and the    *)
(* peer's PONG has been received, with no PING sent to it since, the next   *)
(* round of the ping loop, whenever it runs, leaves the peer in the table   *)
(* with missed_pongs = 0                                                    *)
AnsweredPingNotCharged ==
    (cfg.impl = "GossipNode" /\ gn[1].started) =>
        \A perm \in PeerPerms, perm2 \in PeerPerms, t2 \in now .. MaxTime :
            LET r1 == ping_loop(cfg, gn[1], now, perm)
            IN  \A i \in DOMAIN r1.s.peers :
                    LET p == r1.s.peers[i]
                        s2 == handle_datagram(cfg, r1.s, PongFrom(p), p.addr, now, IdPerm).s
                        s3 == ping_loop(cfg, s2, t2, perm2).s
                    IN  PingSentTo(r1, p) => MissedOf(s3.peers, p.node_id) = 0

----------------------------------------------------------------------------
(* Properties of the IHAVE and IWANT handlers (SpecGossip).                 *)

IhaveFrom(from, ids) == [Msg("IHAVE", "u", from[1], from[2], 0) EXCEPT !.ids = ids]

(* what the node does with IHAVE(ids) from the sender: one IWANT to the     *)
(* sender for the ids it has not seen, none when it has seen them all, and  *)
(* seen_msgs and gossip_cache as they were                                  *)
IhaveAnswer(from, ids) ==
    LET r == handle_datagram(cfg, gn[1], IhaveFrom(from, ids), from[2], now, IdPerm)
        unknown == Range(ids) \ gn[1].seen_msgs
    IN  /\ r.s.seen_msgs = gn[1].seen_msgs
        /\ r.s.gossip_cache = gn[1].gossip_cache
        /\ IF unknown = {} THEN r.out = <<>>
           ELSE /\ Len(r.out) = 1
                /\ r.out[1].dst = from[2]
                /\ r.out[1].msg.msg_type = "IWANT"
                /\ Range(r.out[1].msg.ids) = unknown

(* C22 as stated: IHAVE from any sender is answered with exactly one IWANT  *)
(* for exactly the ids not in seen_msgs, or with nothing when all are seen; *)
(* seen_msgs and gossip_cache are unchanged                                 *)
IhaveAnsweredAll ==
    gn[1].started =>
        \A from \in Senders, ids \in IdLists(AllMsgIds) : IhaveAnswer(from, ids)

(* C22 amended: the same, for IHAVE from a sender whose sender_id is not    *)
(* the node's own node_id                                                   *)
IhaveAnswered ==
    gn[1].started =>
        \A from \in Senders, ids \in IdLists(AllMsgIds) :
            from[1] # gn[1].node_id => IhaveAnswer(from, ids)

(* the node has handled an IHAVE from another node and sent its IWANT,      *)
(* while it had already seen some message                                   *)
IhaveAnsweredWitness ==
    /\ ev.kind = "recv" /\ ev.msg_type = "IHAVE" /\ ev.sent = 1
    /\ ev.sender_id # gn[1].node_id
    /\ gn[1].seen_msgs # {}

IwantFrom(from, ids) == [Msg("IWANT", "u", from[1], from[2], 0) EXCEPT !.ids = ids]

(* C23: IWANT(ids) from a known peer is served from gossip_cache: one       *)
(* datagram to the requester for each requested id that is cached, each the *)
(* cached envelope itself (msg_id, ttl, sender_id and payload as cached),   *)
(* nothing for an id that is not cached; seen_msgs and gossip_cache are     *)
(* unchanged                                                                *)
IwantServedVerbatim ==
    gn[1].started =>
        \A from \in Senders, ids \in IdLists(AllMsgIds) :
            from[1] \in PeerIds(gn[1].peers) =>
                LET r == handle_datagram(cfg, gn[1], IwantFrom(from, ids), from[2], now, IdPerm)
                    cache == gn[1].gossip_cache
                    cached == {i \in DOMAIN ids : ids[i] \in CacheIds(cache)}
                IN  /\ r.s.seen_msgs = gn[1].seen_msgs
                    /\ r.s.gossip_cache = cache
                    /\ Len(r.out) = Cardinality(cached)
                    /\ \A i \in DOMAIN r.out :
                          /\ r.out[i].dst = from[2]
                          /\ r.out[i].msg.msg_id \in Range(ids)
                          /\ r.out[i].msg = CacheGet(cache, r.out[i].msg.msg_id)
                    /\ \A i \in cached :
                          \E j \in DOMAIN r.out : r.out[j].msg = CacheGet(cache, ids[i])

(* the node has served an IWANT of a known peer from its cache, and the     *)
(* cached envelope is a GOSSIP that another node sent                       *)
IwantServedVerbatimWitness ==
    /\ ev.kind = "recv" /\ ev.msg_type = "IWANT" /\ ev.sent >= 1
    /\ ev.missed_before >= 0
    /\ \E i \in DOMAIN gn[1].gossip_cache : gn[1].gossip_cache[i].sender_id # gn[1].node_id

----------------------------------------------------------------------------
(* Properties of fanout selection (SpecGossip).                             *)

(* the datagrams of one emission go to distinct entries of the eligible     *)
(* peers, at most fanout of them                                            *)
Sampled(out, eligible, fanout) ==
    /\ Len(out) <= Min(fanout, Len(eligible))
    /\ \E g \in [DOMAIN out -> DOMAIN eligible] :
          /\ \A i, j \in DOMAIN out : g[i] = g[j] => i = j
          /\ \A i \in DOMAIN out : eligible[g[i]].addr = out[i].dst

FanoutChoices == 0 .. MaxPeerLimit + 1

(* C24: whatever the fanout, a push forward, an origination, an IHAVE       *)
(* round, a PING round and a discovery round each send to at most           *)
(* min(fanout, number of eligible peers) peers, all distinct entries of the *)
(* current peer table; a forward sends to no entry of the excluded peer     *)
FanoutSelection ==
    gn[1].started =>
        \A fanout \in FanoutChoices, perm \in PeerPerms :
            LET c == [cfg EXCEPT !.fanout = fanout]
                s == gn[1]
            IN  /\ \A from \in Senders, m \in AllMsgIds, k \in 0 .. MaxTtl :
                      LET msg == Msg("GOSSIP", m, from[1], from[2], k)
                          r == handle_datagram(c, s, msg, from[2], now, perm)
                      IN  Sampled(r.out,
                                  SelectSeq(r.s.peers, LAMBDA p : p.node_id # msg.sender_id),
                                  fanout)
                /\ LET r == stdin_gossip(c, s, OwnMsgId(1), perm)
                   IN  Sampled(r.out, r.s.peers, fanout)
                /\ \A order \in Orders(s.seen_msgs) :
                      LET r == pull_loop(c, s, order, perm, [i \in DOMAIN order |-> i])
                      IN  Sampled(r.out, r.s.peers, fanout)
                /\ \A t \in now .. now + 1 :
                      LET r == ping_loop(c, s, t, perm)
                      IN  Sampled(r.out, r.s.peers, fanout)
                /\ LET r == discovery_loop(c, s, perm)
                   IN  Sampled(r.out, r.s.peers, fanout)

(* a first-seen GOSSIP of a peer was forwarded by a node with two peers and *)
(* fanout 2: to the one peer that is not the excluded one                   *)
FanoutSelectionWitness ==
    /\ cfg.fanout = 2 /\ Len(gn[1].peers) = 2
    /\ ev.kind = "recv" /\ ev.msg_type = "GOSSIP" /\ ev.sent = 1
    /\ ev.sender_id \in PeerIds(gn[1].peers)

----------------------------------------------------------------------------
(* Properties of HELLO admission (Spec).                                    *)

PeersListSentTo(out, addr) ==
    \E i \in DOMAIN out : out[i].msg.msg_type = "PEERS_LIST" /\ out[i].dst = addr

(* _on_hello has no capability check: a HELLO is accepted when no proof of  *)
(* work is required or the credential it carries verifies                   *)
HelloAccepted(c, msg) ==
    c.pow_k <= 0 \/ (msg.has_pow /\ verify_pow(msg.sender_id, msg.pow, c.pow_k))

(* C25: after an accepted HELLO the sender is in the receiver's peer view   *)
(* (marked as verified where the view has the mark) and a PEERS_LIST has    *)
(* been sent to it, whether or not the peer table was at peer_limit         *)
HelloAdmitsSender ==
    /\ (cfg.impl = "GossipNode" /\ gn[1].started) =>
          \A from \in Senders :
              \A msg \in {m \in MemberMsgs(from[1], from[2]) : m.msg_type = "HELLO"} :
                  HelloAccepted(cfg, msg) =>
                      LET r == handle_datagram(cfg, gn[1], msg, from[2], now, IdPerm)
                      IN  /\ from[1] \in PeerIds(r.s.peers)
                          /\ PeersListSentTo(r.out, from[2])
    /\ (cfg.impl = "NodeRuntime" /\ rt.connected) =>
          \A from \in Senders :
              \A msg \in {m \in RtMsgs(from[1], from[2]) : m.msg_type = "HELLO"} :
                  validate_hello(cfg, msg) =>
                      LET r == dispatch(cfg, rt, msg, from[2], now)
                      IN  /\ from[2] \in DOMAIN r.s.peers
                          /\ r.s.peers[from[2]].is_verified_hello
                          /\ PeersListSentTo(r.out, from[2])

----------------------------------------------------------------------------
(* Properties of PEERS_LIST handling (Spec).                                *)

HelloDsts(out) == {out[i].dst : i \in {j \in DOMAIN out : out[j].msg.msg_type = "HELLO"}}

HelloCount(out) == Cardinality({j \in DOMAIN out : out[j].msg.msg_type = "HELLO"})

(* C26: a PEERS_LIST is answered with one HELLO to each distinct newly      *)
(* discovered peer of the list (an entry that is not the node itself and    *)
(* was not in the peer table when the list arrived) and with no other       *)
(* HELLO: none to a peer already known, none to the node's own address,     *)
(* for every peer_limit >= 1                                                *)
HelloToNewPeers ==
    /\ (cfg.impl = "GossipNode" /\ gn[1].started) =>
          \A from \in Senders \ {<<NodeIdOf(1), AddrOf(1)>>} :
              \A msg \in {m \in MemberMsgs(from[1], from[2]) : m.msg_type = "PEERS_LIST"} :
                  LET r == handle_datagram(cfg, gn[1], msg, from[2], now, IdPerm)
                      known == PeerIds(gn[1].peers) \cup {from[1]}
                      new == {e \in Range(msg.peers) :
                                 /\ e.node_id # gn[1].node_id
                                 /\ e.addr # gn[1].self_addr
                                 /\ e.node_id \notin known}
                  IN  /\ HelloDsts(r.out) = {e.addr : e \in new}
                      /\ HelloCount(r.out) = Cardinality({e.node_id : e \in new})
    /\ (cfg.impl = "NodeRuntime" /\ rt.connected) =>
          \A from \in Senders \ {<<NodeIdOf(1), AddrOf(1)>>} :
              \A msg \in {m \in RtMsgs(from[1], from[2]) : m.msg_type = "PEERS_LIST"} :
                  LET r == dispatch(cfg, rt, msg, from[2], now)
                      known == DOMAIN rt.peers \cup {from[2]}
                      new == {e \in Range(msg.peers) :
                                 e.addr # rt.self_addr /\ e.addr \notin known}
                  IN  /\ HelloDsts(r.out) = {e.addr : e \in new}
                      /\ HelloCount(r.out) = Cardinality(new)

----------------------------------------------------------------------------
(* Properties of the start (Spec).                                          *)

(* --bootstrap is optional for gossip_node.py and required for the node     *)
(* runtime                                                                  *)
BootstrapChoices(impl) ==
    {AddrOf(n) : n \in Nodes} \cup (IF impl = "GossipNode" THEN {NoAddr} ELSE {})

StartSends(bootstrap) ==
    IF cfg.impl = "GossipNode" THEN start(cfg, GossipNodeInit(1), bootstrap).out
    ELSE bootstrap_join(cfg, RuntimeInit, bootstrap).out

(* C27: a node that starts sends one HELLO and then one GET_PEERS to the    *)
(* bootstrap address when one is configured and is not the node's own       *)
(* address, and sends nothing when the bootstrap address is its own or is   *)
(* absent                                                                   *)
BootstrapContact ==
    ev.kind = "start" =>
        \A bootstrap \in BootstrapChoices(cfg.impl) \cup {cfg.bootstrap[1]} :
            LET out == StartSends(bootstrap)
            IN  IF bootstrap # NoAddr /\ bootstrap # AddrOf(1)
                THEN /\ Len(out) = 2
                     /\ out[1].msg.msg_type = "HELLO" /\ out[1].dst = bootstrap
                     /\ out[2].msg.msg_type = "GET_PEERS" /\ out[2].dst = bootstrap
                ELSE out = <<>>

----------------------------------------------------------------------------
(* Properties of the proof of work (Spec).                                  *)

PowIds == {NodeIdOf(1), NodeIdOf(2), "x"}

(* no proof of work, and the difficulty the nodes of Spec run with *)
PowDifficulties == {0, cfg.pow_k}

(* the HELLO a node with this node_id sends when the difficulty is k, as    *)
(* the node runtime builds it                                               *)
HelloWithPow(id, k) ==
    [Msg("HELLO", "u", id, EXT_ADDR, 0) EXCEPT !.has_pow = k > 0,
        !.pow = IF k > 0 THEN create_pow(id, k) ELSE NoPow]

(* C28: for every node_id and every difficulty k >= 0, k = 0 included, the  *)
(* credential the generator returns for (node_id, k) is accepted by the     *)
(* verifier for (node_id, k): _compute_pow with _verify_pow, and            *)
(* _create_pow with _validate_hello                                         *)
PowRoundTrip ==
    (gn[1].started \/ rt.connected) =>
        \A id \in PowIds, k \in PowDifficulties :
            /\ verify_pow(id, compute_pow(id, k), k)
            /\ validate_hello([cfg EXCEPT !.pow_k = k], HelloWithPow(id, k))

(* credentials a sender may present: what either generator returns for any  *)
(* node_id, and the same with the digest tampered                           *)
Credentials(k) ==
    LET made == {compute_pow(id, k) : id \in PowIds} \cup {create_pow(id, k) : id \in PowIds}
    IN  made \cup {[w EXCEPT !.digest_hex = <<0, 0>>] : w \in made}

(* the rule of the specification: the digest is the hash of the decimal     *)
(* nonce followed by the node_id, and begins with k zeros                   *)
NonceFirstValid(id, w, k) ==
    /\ w.digest_hex = sha256_hexdigest(DecText(w.nonce) \o IdText(id))
    /\ startswith(w.digest_hex, Zeros(k))

(* C29: a credential presented by a sender is accepted if and only if its   *)
(* digest is the hash of the nonce followed by the sender's node_id and     *)
(* begins with k zeros, by the verifier of either implementation; so a      *)
(* credential made for one node_id is rejected under another                *)
PowPreimageOrder ==
    (gn[1].started \/ rt.connected) =>
        \A id \in PowIds, w \in Credentials(cfg.pow_k) :
            /\ verify_pow(id, w, cfg.pow_k) <=> NonceFirstValid(id, w, cfg.pow_k)
            /\ validate_hello(cfg, [HelloWithPow(id, cfg.pow_k) EXCEPT !.pow = w])
                   <=> NonceFirstValid(id, w, cfg.pow_k)

----------------------------------------------------------------------------
(* Properties of datagram validation (Spec).                                *)

(* the message with one of the defects the validation names *)
Malformed(msg) ==
    LET d == Datagram(msg)
    IN  {[d EXCEPT !.decode = e] : e \in {"utf8_decode_error", "json_decode_error"}}
        \cup {[d EXCEPT !.is_object = FALSE]}
        \cup {[d EXCEPT !.missing = {required_fields[i]}] : i \in DOMAIN required_fields}
        \cup {[d EXCEPT !.version = 2], [d EXCEPT !.addr_parses = FALSE],
              [d EXCEPT !.timestamp_is_int = FALSE], [d EXCEPT !.payload_is_dict = FALSE]}
        \cup (IF msg.msg_type = "GOSSIP"
              THEN {[d EXCEPT !.missing = {"ttl"}], [d EXCEPT !.ttl_is_int = FALSE],
                    [d EXCEPT !.msg.ttl = -1]}
              ELSE {})

ProbeMsgs(from) ==
    {Msg("PING", "u", from[1], from[2], 0), Msg("GOSSIP", "m1", from[1], from[2], 1),
     [Msg("GET_PEERS", "u", from[1], from[2], 0) EXCEPT !.max_peers = 1]}

PongSentTo(out, addr) ==
    \E i \in DOMAIN out : out[i].msg.msg_type = "PONG" /\ out[i].dst = addr

(* C30: a datagram that does not decode or does not pass the schema         *)
(* validation is dropped: the node's peer table, seen_msgs and gossip_cache *)
(* are as before, nothing is sent, and the node handles the next datagram   *)
(* (a well-formed PING is answered with a PONG)                             *)
MalformedDropped ==
    \A from \in Senders \ {<<NodeIdOf(1), AddrOf(1)>>} :
        \A msg \in ProbeMsgs(from) :
            \A d \in Malformed(msg) :
                LET ping == Datagram(Msg("PING", "u", from[1], from[2], 0))
                IN  /\ (cfg.impl = "GossipNode" /\ gn[1].started) =>
                          LET r == datagram_received(cfg, gn[1], d, from[2], now, IdPerm)
                          IN  /\ r.s = gn[1]
                              /\ r.out = <<>>
                              /\ PongSentTo(datagram_received(cfg, r.s, ping, from[2], now,
                                                              IdPerm).out, from[2])
                    /\ (cfg.impl = "NodeRuntime" /\ rt.connected) =>
                          LET r == on_datagram(cfg, rt, d, from[2], now)
                          IN  /\ r.s = rt
                              /\ r.out = <<>>
                              /\ PongSentTo(on_datagram(cfg, r.s, ping, from[2], now).out,
                                            from[2])

----------------------------------------------------------------------------
(* SpecShutdown: one NodeRuntime from run() to the end of run_node, with    *)
(* datagrams, well-formed or not, stop signals and the loss of the          *)
(* transport.                                                               *)

InitShutdown ==
    /\ InitCommon
    /\ cfg = [Config(1, 1, 1, 0, 1, 1, [n \in Nodes |-> AddrOf(2)], {})
              EXCEPT !.impl = "NodeRuntime"]

RunOpen ==
    /\ rt.transport = "none"
    /\ RtStep(run_open(cfg, rt, cfg.bootstrap[1]), "start", NoMsg)

ShutdownMsgs(from) ==
    {Msg("PING", "u", from[1], from[2], 0), Msg("PONG", "u", from[1], from[2], 0),
     [Msg("HELLO", "u", from[1], from[2], 0) EXCEPT
         !.has_pow = TRUE, !.pow = create_pow(from[1], cfg.pow_k)]}

DatagramReceived ==
    /\ rt.transport = "open"
    /\ \E from \in Senders :
          \E msg \in ShutdownMsgs(from) :
              \E d \in {Datagram(msg), [Datagram(msg) EXCEPT !.version = 2],
                        [Datagram(msg) EXCEPT !.decode = "json_decode_error"]} :
                  RtStep(on_datagram(cfg, rt, d, from[2], now), "recv", d.msg)

(* SIGINT or SIGTERM: the loop calls runtime.stop; the handlers are in      *)
(* place before run() and stay to the end of run_node                       *)
StopSignal ==
    /\ ~rt.logger.closed
    /\ RtStep(Res(stop(rt), <<>>), "signal", NoMsg)

ConnectionLost ==
    /\ rt.transport = "open"
    /\ RtStep(Res(on_connection_lost([rt EXCEPT !.transport = "lost"]), <<>>), "lost", NoMsg)

(* the stop event wakes run() up *)
RunNodeExit ==
    /\ rt.transport # "none" /\ rt.stop_event /\ ~rt.returned
    /\ RtStep(Res(run_node_exit(rt), <<>>), "exit", NoMsg)

(* the loop delivers connection_lost for the transport that run() closed *)
ConnectionLostAfterClose ==
    /\ rt.transport = "closing"
    /\ RtStep(Res(on_connection_lost([rt EXCEPT !.transport = "closed"]), <<>>), "lost", NoMsg)

NextShutdown ==
    \/ RunOpen
    \/ DatagramReceived
    \/ StopSignal
    \/ ConnectionLost
    \/ RunNodeExit
    \/ ConnectionLostAfterClose

(* the event loop resumes a coroutine whose event has been set *)
FairShutdown == WF_vars(RunNodeExit) /\ WF_vars(RunOpen)

SpecShutdown == InitShutdown /\ [][NextShutdown]_vars /\ FairShutdown

Occurrences(lines, event) == Cardinality({i \in DOMAIN lines : lines[i] = event})

(* C31: once stop() has been requested, run() comes to close the endpoint   *)
(* and to log node_shutdown, exactly once, and the log sink is closed only  *)
(* after that; however often stop() is called, node_stop_requested is       *)
(* logged at most once                                                      *)
GracefulShutdown ==
    /\ [](Occurrences(rt.logger.lines, "node_stop_requested") <= 1)
    /\ [](Occurrences(rt.logger.lines, "node_shutdown") <= 1)
    /\ [](rt.logger.closed =>
             /\ Occurrences(rt.logger.lines, "node_shutdown") = 1
             /\ rt.transport \in {"lost", "closing", "closed"})
    /\ (rt.stop_event ~> rt.logger.closed)

(* the node was asked to stop after it had taken a peer in, has shut down   *)
(* and has had the loss of its closed transport delivered                   *)
GracefulShutdownWitness ==
    /\ rt.logger.closed
    /\ rt.transport = "closed"
    /\ rt.peers # <<>>
    /\ rt.logger.lines = <<"node_stop_requested", "node_shutdown">>
    /\ ev.kind = "lost"

----------------------------------------------------------------------------
(* SpecLogger: several threads call JsonlLogger.log and JsonlLogger.close   *)
(* on one logger; a step is what a thread does between two points where     *)
(* another thread can run.                                                  *)

NumThreads == 3
MaxCalls == 2
Threads == 1 .. NumThreads

ThreadInit == [pc |-> "idle", calls |-> 0, raised |-> FALSE]

(* log(): `if self._closed: return`, read without the lock *)
log_enter(lg) == ~lg.closed

(* faulty variant: the flag is not read again under the lock *)
log_recheck_skipped(lg) == TRUE

(* log(): `if self._closed: return`, read again under the lock *)
log_recheck(lg) == ~lg.closed

(* faulty variant: the lock is taken whoever holds it *)
acquire_unguarded(lg) == TRUE

(* Lock.acquire, blocking: it returns when the lock is free *)
acquire(lg) == lg.lock = 0

(* self._fp.write(line + "\n"); a closed file raises ValueError *)
fp_write(lg, line) ==
    IF lg.fp = "open" THEN [lg EXCEPT !.pending = Append(@, line)] ELSE lg

(* self._fp.flush() *)
fp_flush(lg) ==
    IF lg.fp = "open" THEN [lg EXCEPT !.lines = @ \o lg.pending, !.pending = <<>>] ELSE lg

(* self._fp.close(): what is pending is flushed with it *)
fp_close(lg) == [fp_flush(lg) EXCEPT !.fp = "closed"]

(* the record thread t logs in its call number k *)
LineOf(t, k) == <<t, k>>

ThreadStep(t, lg, pc, raised) ==
    /\ rt' = [rt EXCEPT !.logger = lg]
    /\ threads' = [threads EXCEPT ![t].pc = pc,
                                  ![t].raised = raised,
                                  ![t].calls = IF threads[t].pc = "idle" THEN @ + 1 ELSE @]
    /\ UNCHANGED <<now, cfg, gn, net, ev, hist>>

InitLogger ==
    /\ now = 1
    /\ gn = [n \in Nodes |-> GossipNodeInit(n)]
    /\ rt = RuntimeInit
    /\ net = {}
    /\ ev = NoEvent
    /\ hist = [n \in Nodes |->
                 [m \in AllMsgIds |-> [first_seen |-> 0, push |-> 0, resend |-> 0]]]
    /\ threads = [t \in Threads |-> ThreadInit]
    /\ cfg = [Config(1, 1, 1, 0, 1, 1, [n \in Nodes |-> AddrOf(2)], {})
              EXCEPT !.impl = "NodeRuntime"]

Release(lg) == [lg EXCEPT !.lock = 0]

LogCall(t) ==
    /\ threads[t].pc = "idle" /\ threads[t].calls < MaxCalls
    /\ ThreadStep(t, rt.logger, IF log_enter(rt.logger) THEN "log_acquire" ELSE "idle", FALSE)

LogAcquire(t) ==
    /\ threads[t].pc = "log_acquire" /\ acquire(rt.logger)
    /\ ThreadStep(t, [rt.logger EXCEPT !.lock = t], "log_locked", FALSE)

LogLocked(t) ==
    /\ threads[t].pc = "log_locked"
    /\ IF log_recheck(rt.logger)
       THEN ThreadStep(t, rt.logger, "log_write", FALSE)
       ELSE ThreadStep(t, Release(rt.logger), "idle", FALSE)

LogWrite(t) ==
    /\ threads[t].pc = "log_write"
    /\ IF rt.logger.fp = "open"
       THEN ThreadStep(t, fp_write(rt.logger, LineOf(t, threads[t].calls)), "log_flush", FALSE)
       ELSE ThreadStep(t, Release(rt.logger), "idle", TRUE)

LogFlush(t) ==
    /\ threads[t].pc = "log_flush"
    /\ ThreadStep(t, Release(fp_flush(rt.logger)), "idle", rt.logger.fp # "open")

CloseCall(t) ==
    /\ threads[t].pc = "idle" /\ threads[t].calls < MaxCalls
    /\ ThreadStep(t, rt.logger, "close_acquire", FALSE)

CloseAcquire(t) ==
    /\ threads[t].pc = "close_acquire" /\ acquire(rt.logger)
    /\ ThreadStep(t, [rt.logger EXCEPT !.lock = t], "close_locked", FALSE)

CloseLocked(t) ==
    /\ threads[t].pc = "close_locked"
    /\ IF rt.logger.closed
       THEN ThreadStep(t, Release(rt.logger), "idle", FALSE)
       ELSE ThreadStep(t, rt.logger, "close_flush", FALSE)

CloseFlush(t) ==
    /\ threads[t].pc = "close_flush"
    /\ IF rt.logger.fp = "open"
       THEN ThreadStep(t, fp_flush(rt.logger), "close_file", FALSE)
       ELSE ThreadStep(t, Release(rt.logger), "idle", TRUE)

CloseFile(t) ==
    /\ threads[t].pc = "close_file"
    /\ ThreadStep(t, fp_close(rt.logger), "close_flag", FALSE)

CloseFlag(t) ==
    /\ threads[t].pc = "close_flag"
    /\ ThreadStep(t, Release([rt.logger EXCEPT !.closed = TRUE]), "idle", FALSE)

NextLogger ==
    \E t \in Threads :
        \/ LogCall(t)
        \/ LogAcquire(t)
        \/ LogLocked(t)
        \/ LogWrite(t)
        \/ LogFlush(t)
        \/ CloseCall(t)
        \/ CloseAcquire(t)
        \/ CloseLocked(t)
        \/ CloseFlush(t)
        \/ CloseFile(t)
        \/ CloseFlag(t)

SpecLogger == InitLogger /\ [][NextLogger]_vars

InLock(t) ==
    threads[t].pc \in {"log_locked", "log_write", "log_flush",
                       "close_locked", "close_flush", "close_file", "close_flag"}

(* C32: whatever the interleaving of log() and close() of several threads,  *)
(* one thread at a time is between taking and releasing the lock, what is   *)
(* written and not yet flushed is the one whole line of that thread, no     *)
(* write or flush meets a closed file, and once close() has completed the   *)
(* file is left alone and a log() call returns at once                      *)
LoggerSafe ==
    /\ [](\A t \in Threads : InLock(t) => rt.logger.lock = t)
    /\ [](Len(rt.logger.pending) <= 1)
    /\ [](rt.logger.pending # <<>> =>
             \E t \in Threads :
                 /\ threads[t].pc = "log_flush"
                 /\ rt.logger.pending = <<LineOf(t, threads[t].calls)>>)
    /\ [](\A t \in Threads : ~threads[t].raised)
    /\ [](rt.logger.closed => rt.logger.fp = "closed" /\ rt.logger.pending = <<>>)
    /\ [][rt.logger.closed =>
             /\ rt.logger'.lines = rt.logger.lines
             /\ rt.logger'.fp = rt.logger.fp
             /\ \A t \in Threads :
                    threads[t].pc = "idle" => threads'[t].pc \in {"idle", "close_acquire"}]_vars

(* two threads have written a line each, the logger is closed, and a thread *)
(* that read the flag before the close is about to take the lock            *)
LoggerSafeWitness ==
    /\ rt.logger.closed
    /\ \E i, j \in DOMAIN rt.logger.lines : rt.logger.lines[i][1] # rt.logger.lines[j][1]
    /\ \E t \in Threads : threads[t].pc = "log_acquire"
    /\ \E t \in Threads : threads[t].pc = "idle" /\ threads[t].calls = MaxCalls

----------------------------------------------------------------------------
(* The binding of node ids to addresses in the peer tables of the overlay.  *)

(* the address the process with this node_id sends from: its own socket's;  *)
(* the overlay's tables were filled from HELLOs and lists naming just that  *)
SocketOf(node_id) ==
    IF \E k \in Nodes : NodeIdOf(k) = node_id
    THEN AddrOf(CHOOSE k \in Nodes : NodeIdOf(k) = node_id)
    ELSE EXT_ADDR

(* C33: every entry of a GossipNode's peer table binds its node_id to an    *)
(* address that node has sent from or was advertised under; a forwarded or  *)
(* re-delivered GOSSIP does not bind the original sender's node_id to the   *)
(* address of the forwarder                                                 *)
PeerBindingIntegrity ==
    \A n \in Nodes : \A i \in DOMAIN gn[n].peers :
        gn[n].peers[i].addr = SocketOf(gn[n].peers[i].node_id)

----------------------------------------------------------------------------
(* What a node advertises and what it can serve.                            *)

(* C34: every msg_id a node puts in an IHAVE is a key of its gossip_cache   *)
(* when the IHAVE is sent, so that an IWANT for it from a known peer is     *)
(* answered with the GOSSIP; the ids of the messages the node originated    *)
(* from stdin are among them                                                *)
AdvertisedIsServed ==
    gn[1].started =>
        \A order \in Orders(gn[1].seen_msgs) :
            LET r == pull_loop(cfg, gn[1], order, IdPerm, [i \in DOMAIN order |-> i])
            IN  \A i \in DOMAIN r.out : \A mid \in Range(r.out[i].msg.ids) :
                    /\ mid \in CacheIds(gn[1].gossip_cache)
                    /\ \A from \in Senders :
                          from[1] \in PeerIds(gn[1].peers) =>
                              SendsGossip(handle_datagram(cfg, gn[1], IwantFrom(from, <<mid>>),
                                                          from[2], now, IdPerm), mid)

----------------------------------------------------------------------------
(* Admission under proof of work.                                           *)

(* C35: with k_pow > 0 only a HELLO with a valid credential admits its      *)
(* sender: a node whose peer view is empty (nobody has been admitted yet)   *)
(* still has an empty view after any datagram of another kind (PING, PONG,  *)
(* GET_PEERS, PEERS_LIST, GOSSIP, IHAVE, IWANT), in both implementations    *)
PowGatesAdmission ==
    cfg.pow_k > 0 =>
        \A from \in Senders :
            /\ (gn[1].started /\ gn[1].peers = <<>>) =>
                  \A msg \in MemberMsgs(from[1], from[2])
                             \cup GossipMsgs(from[1], from[2], ForeignMsgIds) :
                      msg.msg_type # "HELLO" =>
                          handle_datagram(cfg, gn[1], msg, from[2], now, IdPerm).s.peers = <<>>
            /\ (rt.connected /\ DOMAIN rt.peers = {}) =>
                  \A msg \in RtMsgs(from[1], from[2]) :
                      msg.msg_type # "HELLO" =>
                          DOMAIN dispatch(cfg, rt, msg, from[2], now).s.peers = {}

----------------------------------------------------------------------------
(* SpecDetector: node 1 holds the peers n2 and n3; n2 has crashed (it is    *)
(* not running: what is sent to it is lost), n3 answers every PING.  The    *)
(* ping loop of node 1 fires every ping_interval ticks.  Only differences   *)
(* of clock readings matter to the loop, so the clock is held at Horizon    *)
(* and the time that passes moves the stored readings back instead; a       *)
(* reading as old as Horizon - 1 is older than every timeout and stays.     *)

Horizon == 4

Holder == 1
Crashed == 2
Live == 3

(* d ticks pass: last_ping = 0 means `never' and stays *)
Elapse(peers, d) ==
    [i \in DOMAIN peers |->
        [peers[i] EXCEPT !.last_seen = Max(1, @ - d),
                         !.last_ping = IF @ = 0 THEN 0 ELSE Max(1, @ - d)]]

InitDetector ==
    /\ now = Horizon
    /\ gn = [n \in Nodes |->
               [GossipNodeInit(n) EXCEPT
                   !.started = n \in {Holder, Live},
                   !.peers = IF n = Holder
                             THEN <<PeerInfo(NodeIdOf(Crashed), AddrOf(Crashed), Horizon),
                                    PeerInfo(NodeIdOf(Live), AddrOf(Live), Horizon)>>
                             ELSE <<>>]]
    /\ rt = RuntimeInit
    /\ net = {}
    /\ ev = NoEvent
    /\ hist = [n \in Nodes |->
                 [m \in AllMsgIds |-> [first_seen |-> 0, push |-> 0, resend |-> 0]]]
    /\ threads = <<>>
    /\ \E fanout \in 1 .. 2, peer_timeout \in 1 .. 2, ping_interval \in 1 .. 3 :
          cfg = [Config(fanout, 1, 2, peer_timeout, 0, 0,
                        [n \in Nodes |-> NoAddr], {Holder, Live})
                 EXCEPT !.observed = FALSE, !.ping_interval = ping_interval]

(* asyncio.sleep(ping_interval) is over: one pass of the loop of the holder *)
PingRound ==
    /\ Quiet
    /\ LET aged == [n \in Nodes |-> [gn[n] EXCEPT !.peers = Elapse(@, cfg.ping_interval)]]
       IN  \E perm \in PeerPerms :
              LET r == ping_loop(cfg, aged[Holder], now, perm)
              IN  /\ gn' = [aged EXCEPT ![Holder] = r.s]
                  /\ net' = Route(Holder, r.out)
    /\ UNCHANGED <<now, cfg, rt, ev, hist, threads>>

NextDetector ==
    \/ PingRound
    \/ \E n \in {Holder, Live} : Deliver(n)

(* the timer of the loop keeps firing and every datagram received is        *)
(* handled                                                                  *)
FairDetector == WF_vars(PingRound) /\ WF_vars(\E n \in {Holder, Live} : Deliver(n))

SpecDetector == InitDetector /\ [][NextDetector]_vars /\ FairDetector

(* C36: a peer that has crashed is eventually removed from the peer view of *)
(* the node that holds it, when the ping loop keeps firing, whatever the    *)
(* fanout, the ping interval and the peer timeout                           *)
CrashedPeerRemoved == <>(NodeIdOf(Crashed) \notin PeerIds(gn[Holder].peers))

----------------------------------------------------------------------------
(* SpecDiscovery: the nodes 2..NumNodes form an overlay (each holds the     *)
(* others, as many as peer_limit allows, in the order of their ports); node *)
(* 1 starts with node 2 as its bootstrap.  No timer fires.                  *)

Newcomer == 1

(* the first peer_limit of the other overlay nodes, going round from n + 1 *)
OverlayView(n, peer_limit) ==
    LET others == [i \in 1 .. NumNodes - 2 |-> 2 + ((n - 2 + i) % (NumNodes - 1))]
    IN  [i \in 1 .. Min(peer_limit, NumNodes - 2) |->
            PeerInfo(NodeIdOf(others[i]), AddrOf(others[i]), 1)]

InitDiscovery ==
    /\ now = 1
    /\ rt = RuntimeInit
    /\ net = {}
    /\ ev = NoEvent
    /\ hist = [n \in Nodes |->
                 [m \in AllMsgIds |-> [first_seen |-> 0, push |-> 0, resend |-> 0]]]
    /\ threads = <<>>
    /\ \E peer_limit \in 1 .. NumNodes :
          /\ cfg = [Config(1, 1, peer_limit, 1, 0, 0,
                           [n \in Nodes |-> IF n = Newcomer THEN AddrOf(2) ELSE NoAddr], Nodes)
                    EXCEPT !.observed = FALSE, !.discovery_interval = 0]
          /\ gn = [n \in Nodes |->
                     IF n = Newcomer THEN GossipNodeInit(n)
                     ELSE [GossipNodeInit(n) EXCEPT !.started = TRUE,
                                                    !.peers = OverlayView(n, peer_limit)]]

NextDiscovery ==
    \/ Start(Newcomer)
    \/ \E n \in Nodes : Deliver(n)

(* the newcomer's start() runs and every datagram received is handled *)
FairDiscovery == WF_vars(Start(Newcomer)) /\ WF_vars(\E n \in Nodes : Deliver(n))

SpecDiscovery == InitDiscovery /\ [][NextDiscovery]_vars /\ FairDiscovery

(* C37: with no timer firing, the exchange of HELLO and PEERS_LIST that the *)
(* bootstrap of one node starts comes to an end: after finitely many        *)
(* datagrams none is in flight, whatever the peer_limit                     *)
DiscoveryQuiescence == <>(gn[Newcomer].started /\ net = {})

----------------------------------------------------------------------------
(* SpecPush: the overlay of SpecOverlay in pure PUSH mode (pull_interval =  *)
(* 0), fanout 1 or 2, and one GOSSIP sent from outside to node 2.  Every    *)
(* view holds every other node: the views are full of cycles.  hist counts, *)
(* besides, the GOSSIP datagrams each node has sent for each msg_id.        *)

InitPush ==
    /\ now = 1
    /\ gn = [n \in Nodes |-> [GossipNodeInit(n) EXCEPT !.peers = Mesh(n), !.started = TRUE]]
    /\ rt = RuntimeInit
    /\ ev = NoEvent
    /\ hist = [n \in Nodes |->
                 [m \in AllMsgIds |-> [first_seen |-> 0, push |-> 0, resend |-> 0, sent |-> 0]]]
    /\ threads = <<>>
    /\ \E fanout \in 1 .. 2, ttl \in {1, NumNodes} :
          /\ cfg = [Config(fanout, ttl, NumNodes, 1, 0, 0, [n \in Nodes |-> AddrOf(1)], Nodes)
                    EXCEPT !.stdin_enabled = [n \in Nodes |-> FALSE], !.observed = FALSE]
          /\ net = {[dst |-> AddrOf(2), src |-> EXT_ADDR,
                     msg |-> Msg("GOSSIP", Injected, "x", EXT_ADDR, ttl)]}

(* the GOSSIP datagrams for m among the sends of a step *)
GossipSends(r, m) ==
    Cardinality({i \in DOMAIN r.out :
                    r.out[i].msg.msg_type = "GOSSIP" /\ r.out[i].msg.msg_id = m})

PushDeliver(n) ==
    /\ gn[n].started
    /\ \E d \in net :
        \E perm \in PermsFor(gn[n], d.msg) :
          /\ d.dst = AddrOf(n)
          /\ LET r == handle_datagram(cfg, gn[n], d.msg, d.src, now, perm)
                 h == Record(hist[n], r, "recv", d.msg)
             IN  /\ gn' = [gn EXCEPT ![n] = r.s]
                 /\ net' = (net \ {d}) \cup Route(n, r.out)
                 /\ hist' = [hist EXCEPT ![n] =
                               [m \in AllMsgIds |->
                                   [first_seen |-> h[m].first_seen, push |-> h[m].push,
                                    resend |-> h[m].resend,
                                    sent |-> hist[n][m].sent + GossipSends(r, m)]]]
    /\ UNCHANGED <<now, cfg, rt, ev, threads>>

NextPush == \E n \in Nodes : PushDeliver(n)

(* every datagram received is handled *)
FairPush == WF_vars(\E n \in Nodes : PushDeliver(n))

SpecPush == InitPush /\ [][NextPush]_vars /\ FairPush

RECURSIVE SentUpTo(_, _)
SentUpTo(n, m) == IF n = 0 THEN 0 ELSE hist[n][m].sent + SentUpTo(n - 1, m)

(* the GOSSIP datagrams the nodes of the overlay have sent for m *)
TotalSent(m) == SentUpTo(NumNodes, m)

(* C38: in pure PUSH mode the nodes send at most N * fanout GOSSIP          *)
(* datagrams for the one injected msg_id, and from some point on no GOSSIP  *)
(* for it is in flight, although the peer views contain cycles              *)
PushTerminates ==
    /\ [](TotalSent(Injected) <= NumNodes * cfg.fanout)
    /\ <>[](GossipInFlight = {})

(* every node has pushed the message to two peers and the network is at    *)
(* rest                                                                     *)
PushTerminatesWitness ==
    /\ cfg.fanout = 2
    /\ net = {}
    /\ TotalSent(Injected) = NumNodes * cfg.fanout
    /\ \A n \in Nodes : hist[n][Injected].first_seen = 1

----------------------------------------------------------------------------
(* The frame of PeerStore.upsert.                                           *)

(* C39: upsert on an address that is in the table changes that entry only:  *)
(* the addresses in the table are the same, nothing is evicted, the other   *)
(* records are as they were; is_verified_hello does not go from true to     *)
(* false, and node_id = None or last_seen_ts_ms = None leaves the known     *)
(* node_id or last_seen_ts_ms in place                                      *)
UpsertExistingFrame ==
    \A addr \in DOMAIN rt.peers :
        \A node_id \in {NoneId, "x", NodeIdOf(2)}, last_seen_ts_ms \in {NoneTs, now_ms(now)} :
            \A source \in {"hello", "peers_list"}, mark_hello_verified \in BOOLEAN :
                LET r == upsert(cfg, rt.self_addr, rt.peers, addr, node_id, last_seen_ts_ms,
                                source, mark_hello_verified, now_ms(now))
                    old == rt.peers[addr]
                    new == r.peers[addr]
                IN  /\ r.action = "updated" /\ r.evicted = NoAddr
                    /\ DOMAIN r.peers = DOMAIN rt.peers
                    /\ \A a \in DOMAIN rt.peers \ {addr} : r.peers[a] = rt.peers[a]
                    /\ new.addr = old.addr
                    /\ new.consecutive_ping_failures = old.consecutive_ping_failures
                    /\ old.is_verified_hello => new.is_verified_hello
                    /\ new.is_verified_hello = (old.is_verified_hello \/ mark_hello_verified)
                    /\ node_id = NoneId => new.node_id = old.node_id
                    /\ last_seen_ts_ms = NoneTs => new.last_seen_ts_ms = old.last_seen_ts_ms

(* the table is full, and a PING has just come from a peer whose HELLO was  *)
(* verified before: its record was updated and is verified still            *)
UpsertExistingFrameWitness ==
    /\ rt.connected
    /\ cfg.peer_limit = 2 /\ Cardinality(DOMAIN rt.peers) = 2
    /\ ev.kind = "recv" /\ ev.msg_type = "PING" /\ ev.size_before = 2
    /\ \E a \in DOMAIN rt.peers :
          /\ rt.peers[a].node_id = ev.sender_id
          /\ rt.peers[a].is_verified_hello

====
